---- MODULE Spec2Model ----
(***************************************************************************)
(* Model of the listing-query tool of house_rental_agent:                  *)
(*   sanitize_agent_spec / build_stmt_from_spec / query_listing_table      *)
(*   (src/src/Query_database_tool.py) and the engine singleton             *)
(*   (src/src/init_db_engine.py).                                          *)
(*                                                                         *)
(* Python values are tagged records.  A name-like value (a field, an       *)
(* operator, a select item) is [ty, s] with s the text; a condition value  *)
(* is [ty, n] with n the int value or the length of the str/list/tuple; a  *)
(* value that is parsed or case-folded (direction, limit, offset) is       *)
(* [ty, n, chars] with chars the sequence of its characters.               *)
(***************************************************************************)
EXTENDS Integers, Sequences, FiniteSets, TLC

VARIABLES
  raw,       \* the `spec` argument of the call (Query_database_tool.py:81, 338)
  pc,        \* the position reached in the call
  check,     \* what sanitize_agent_spec returned or raised (line 373)
  stmt,      \* the statement build_stmt_from_spec returned (line 383)
  engine,    \* the singleton _engine (init_db_engine.py:9): "none" or "built"
  LISTING,   \* whether _LISTING holds the reflected table (lines 66-72)
  pool_out,  \* connections checked out of the engine's pool (line 379)
  data,      \* the rows fetched (lines 384-385)
  exc,       \* the exception caught at line 399, "" when none
  result,    \* what query_listing_table returned or raised (lines 387-406)
  \* upsert_listing (Database_tools.py:142-154)
  record,        \* the `record` argument (line 142)
  upc,           \* the position reached in the call
  listing_rows,  \* the rows of table listing (lines 45-116)
  before,        \* the rows of table listing when the call started
  store_ops,     \* what the call has asked of the store so far (lines 152-153)
  uresult,       \* what upsert_listing returned or raised (lines 150, 154)
  \* process_brightdata_snapshot (Zillow_tools.py:102-112)
  snapshot_output,  \* the `snapshot_output` argument (line 102)
  selected_keys,    \* the `selected_keys` argument (line 102)
  kwargs,           \* max_photos, max_price_history, max_desc_chars (lines 79-81)
  lpc,              \* the position reached in the call
  lresult,          \* what process_brightdata_snapshot returned (lines 105-112)
  \* retrieve_snapshot_from_brightData (Zillow_tools.py:116-201)
  max_attempts,  \* the `max_attempts` argument (line 116)
  interval,      \* the `interval` argument (line 116)
  ppc,           \* the position reached in the call
  attempt,       \* the loop variable of line 178
  responses,     \* the responses requests.get has returned so far (line 179)
  sleeps,        \* the arguments of the time.sleep calls so far (line 187)
  presult,       \* what the call returned or raised (lines 183, 191-201)
  \* get_engine and set_database_url (init_db_engine.py:9-29)
  _engine,       \* the singleton (line 9): 0 for None, or the number of an engine
  _lock,         \* the thread holding _lock (line 10), FREE when none does
  DATABASE_URL,  \* the URL engines are built from: the number of the last URL set
  built,         \* the engines create_engine has returned (line 19), in order
  disposed,      \* the engines dispose() was called on (line 28)
  tpc,           \* the line each caller of get_engine is at
  eng,           \* the local `eng` of each caller (lines 14, 17, 19)
  hist,          \* per caller: the resets completed when its call started
  rpc,           \* the line the thread calling set_database_url is at
  resets,        \* the resets: started, completed, engines built when the last ended
  \* get_departure_time (GoogleMaps_tools.py:12-26)
  now,                    \* dt.datetime.now(timeZone) (line 16)
  departure_time_hour,    \* the `departure_time_hour` argument (line 12)
  departure_time_minute,  \* the `departure_time_minute` argument (line 12)
  dpc,                    \* the position reached in the call
  dresult,                \* what get_departure_time returned or raised (lines 14, 26)
  \* sanitize_agent_spec called on the normalized_spec it returned
  recheck                 \* what that second call returned or raised

queryVars   == <<raw, pc, check, stmt, engine, LISTING, pool_out, data, exc, result>>
upsertVars  == <<record, upc, listing_rows, before, store_ops, uresult>>
listingVars == <<snapshot_output, selected_keys, kwargs, lpc, lresult>>
pollVars    == <<max_attempts, interval, ppc, attempt, responses, sleeps, presult>>

engineVars  == <<_engine, _lock, DATABASE_URL, built, disposed, tpc, eng, hist, rpc, resets>>

departVars  == <<now, departure_time_hour, departure_time_minute, dpc, dresult>>

againVars   == <<recheck>>

vars ==
  <<queryVars, upsertVars, listingVars, pollVars, engineVars, departVars, againVars>>

\* the variables a specification leaves alone
notQuery   == <<upsertVars, listingVars, pollVars, engineVars, departVars, againVars>>
notUpsert  == <<queryVars, listingVars, pollVars, engineVars, departVars, againVars>>
notListing == <<queryVars, upsertVars, pollVars, engineVars, departVars, againVars>>
notPoll    == <<queryVars, upsertVars, listingVars, engineVars, departVars, againVars>>
notEngine  == <<queryVars, upsertVars, listingVars, pollVars, departVars, againVars>>
notDepart  == <<queryVars, upsertVars, listingVars, pollVars, engineVars, againVars>>

(***************************************************************************)
(* Bounds of the model                                                     *)
(***************************************************************************)
\* longest raw `where` / `where_any` list
MaxConds == 2
\* longest raw `order_by` list
MaxOrder == 2
\* longest raw `select` list
MaxSelect == 2
\* most rows the database returns for one statement
MaxRows == 2
\* longest stored price_history array a further upsert is made on
MaxHistory == 1
\* longest photos / priceHistory list and longest text of a scraped listing
MaxList == 3
\* largest max_photos / max_price_history / max_desc_chars passed explicitly
MaxKwarg == 2
\* most items of a snapshot
MaxSnapshot == 2
\* largest max_attempts a poll is started with
MaxAttempts == 3
\* threads calling get_engine
MaxCallers == 2
\* calls of set_database_url
MaxResets == 1
\* last day, counted from a Monday, on which get_departure_time is called
MaxDay == 7

(***************************************************************************)
(* Program constants (Query_database_tool.py:34-51)                        *)
(***************************************************************************)
DEFAULT_SELECT ==
  << "external_id", "listing_data_source", "address_unit", "address_street",
     "address_city", "address_state", "longitude_text", "latitude_text",
     "bedrooms", "bathrooms", "listing_price", "year_built", "longitude",
     "latitude", "home_type", "living_area", "rent_zestimate", "photo_count",
     "hdp_url", "has_approved_third_party_virtual_tour_url",
     "street_view_tile_image_url_medium_lat_long", "general_description",
     "price_history", "nearby_homes", "is_instant_offer_enabled",
     "is_off_market", "days_on_zillow", "virtual_tour_url", "photos",
     "utilities", "interior_description", "overview",
     "is_listed_by_management_company", "property_description", "tags",
     "unit_amenities", "availability_date", "getting_around_scores",
     "updated_at", "created_at" >>

ALLOWED_SELECT ==
  { "external_id", "listing_data_source", "address_unit", "address_street",
    "address_city", "address_state", "longitude_text", "latitude_text",
    "bedrooms", "bathrooms", "listing_price", "year_built", "longitude",
    "latitude", "home_type", "living_area", "rent_zestimate", "photo_count",
    "hdp_url", "has_approved_third_party_virtual_tour_url",
    "street_view_tile_image_url_medium_lat_long", "general_description",
    "price_history", "nearby_homes", "is_instant_offer_enabled",
    "is_off_market", "days_on_zillow", "virtual_tour_url", "photos",
    "utilities", "interior_description", "overview",
    "is_listed_by_management_company", "property_description", "tags",
    "unit_amenities", "availability_date", "getting_around_scores",
    "updated_at", "created_at" }

ALLOWED_FIELDS ==
  { "external_id", "listing_data_source", "address_city", "address_state",
    "bedrooms", "bathrooms", "listing_price", "year_built", "home_type",
    "living_area", "days_on_zillow", "availability_date", "updated_at",
    "created_at" }

ALLOWED_OPS == { "=", "!=", ">", ">=", "<", "<=", "ilike", "in", "between" }

MAX_LIMIT == 50

(***************************************************************************)
(* Python values                                                           *)
(***************************************************************************)
\* name-like values
Str(s)     == [ty |-> "str",  s |-> s]
NoneName   == [ty |-> "none", s |-> ""]
IntName    == [ty |-> "int",  s |-> ""]
Unhashable == [ty |-> "list", s |-> ""]

\* condition values: n is the int value, or the length of a str/list/tuple
PyInt(n)   == [ty |-> "int",   n |-> n]
PyStr(n)   == [ty |-> "str",   n |-> n]
PyList(n)  == [ty |-> "list",  n |-> n]
PyTuple(n) == [ty |-> "tuple", n |-> n]
PyNone     == [ty |-> "none",  n |-> 0]

\* scalar values that are converted: n the number (a float counts halves),
\* chars the characters of a str
Missing    == [ty |-> "missing", n |-> 0, chars |-> << >>]
ScNone     == [ty |-> "none",    n |-> 0, chars |-> << >>]
ScInt(n)   == [ty |-> "int",     n |-> n, chars |-> << >>]
ScBool(b)  == [ty |-> "bool",    n |-> IF b THEN 1 ELSE 0, chars |-> << >>]
ScFloat(h) == [ty |-> "float",   n |-> h, chars |-> << >>]
ScNaN      == [ty |-> "nan",     n |-> 0, chars |-> << >>]
ScList(n)  == [ty |-> "list",    n |-> n, chars |-> << >>]
ScStr(cs)  == [ty |-> "str",     n |-> Len(cs), chars |-> cs]

\* a section of the raw spec (select / where / where_any / order_by)
SecMissing     == [ty |-> "missing", items |-> << >>]
SecNone        == [ty |-> "none",    items |-> << >>]
SecScalar      == [ty |-> "int",     items |-> << >>]
SecList(items) == [ty |-> "list",    items |-> items]

\* one entry of `where` / `where_any`: a dict, or something that is no dict
Cond(f, o, v) == [isdict |-> TRUE,  field |-> f, op |-> o, value |-> v]
NotADictCond  == [isdict |-> FALSE, field |-> NoneName, op |-> NoneName, value |-> PyNone]

\* one entry of `order_by`
Ob(f, d)      == [isdict |-> TRUE,  field |-> f, direction |-> d]
NotADictOb    == [isdict |-> FALSE, field |-> NoneName, direction |-> Missing]

ASC  == << "a", "s", "c" >>
DESC == << "d", "e", "s", "c" >>

Min(a, b) == IF a < b THEN a ELSE b
Max(a, b) == IF a > b THEN a ELSE b

\* hash(x): lists and dicts are unhashable, so `x in <set>` raises TypeError
Hashable(v) == v.ty \notin {"list", "dict"}
\* x in <set of str>, for a hashable x
InNames(v, S) == v.ty = "str" /\ v.s \in S

\* isinstance(val, (list, tuple)); bool(val) of a list/tuple; isinstance(val, str)
IsListOrTuple(v) == v.ty \in {"list", "tuple"}
IsStr(v) == v.ty = "str"

UpperLetters == << "A","B","C","D","E","F","G","H","I","J","K","L","M",
                   "N","O","P","Q","R","S","T","U","V","W","X","Y","Z" >>
LowerLetters == << "a","b","c","d","e","f","g","h","i","j","k","l","m",
                   "n","o","p","q","r","s","t","u","v","w","x","y","z" >>

\* str.lower()
LowerChar(c) ==
  IF \E i \in 1..Len(UpperLetters) : UpperLetters[i] = c
  THEN LowerLetters[CHOOSE i \in 1..Len(UpperLetters) : UpperLetters[i] = c]
  ELSE c
Lower(cs) == [i \in 1..Len(cs) |-> LowerChar(cs[i])]

Digits == << "0","1","2","3","4","5","6","7","8","9" >>
IsDigit(c) == \E i \in 1..10 : Digits[i] = c
DigitVal(c) == (CHOOSE i \in 1..10 : Digits[i] = c) - 1

RECURSIVE Strip(_)
\* str.strip() as int() applies it to its argument
Strip(cs) ==
  IF cs = << >> THEN cs
  ELSE IF Head(cs) = " " THEN Strip(Tail(cs))
  ELSE IF cs[Len(cs)] = " " THEN Strip(SubSeq(cs, 1, Len(cs) - 1))
  ELSE cs

RECURSIVE DigitsValue(_, _)
DigitsValue(cs, acc) ==
  IF cs = << >> THEN acc ELSE DigitsValue(Tail(cs), 10 * acc + DigitVal(Head(cs)))

\* int(<str>): surrounding blanks, an optional sign, then decimal digits
ParseInt(cs) ==
  LET s     == Strip(cs)
      neg   == s # << >> /\ Head(s) = "-"
      signd == s # << >> /\ Head(s) \in {"-", "+"}
      body  == IF signd THEN Tail(s) ELSE s
  IN  IF body # << >> /\ \A i \in 1..Len(body) : IsDigit(body[i])
      THEN [ok |-> TRUE, v |-> IF neg THEN 0 - DigitsValue(body, 0) ELSE DigitsValue(body, 0)]
      ELSE [ok |-> FALSE, v |-> 0]

\* int(x): ok = FALSE stands for the TypeError/ValueError it raises
ToInt(x) ==
  CASE x.ty \in {"int", "bool"} -> [ok |-> TRUE, v |-> x.n]
    [] x.ty = "float" -> [ok |-> TRUE,
                          v |-> IF x.n >= 0 THEN x.n \div 2 ELSE 0 - ((0 - x.n) \div 2)]
    [] x.ty = "str"   -> ParseInt(x.chars)
    [] OTHER          -> [ok |-> FALSE, v |-> 0]

(***************************************************************************)
(* sanitize_agent_spec (Query_database_tool.py:81-187)                     *)
(***************************************************************************)
\* bool(x) of a section value, as `spec.get(key) or <default>` tests it
SecTruthy(sec) == sec.ty = "int" \/ (sec.ty = "list" /\ sec.items # << >>)

Names(seq) == [i \in 1..Len(seq) |-> seq[i].s]
StrItems(names) == [i \in 1..Len(names) |-> Str(names[i])]

Warning(kind, what) == [kind |-> kind, what |-> what]
Error(kind, entry)  == [kind |-> kind, entry |-> entry]

\* select_part without line 91: an empty good_select is returned as it is
select_part_no_default(sel) ==
  LET req_select == IF SecTruthy(sel) THEN sel.items ELSE StrItems(DEFAULT_SELECT)
  IN  IF sel.ty = "int" \/ \E i \in 1..Len(req_select) : ~Hashable(req_select[i])
      THEN [exc |-> "TypeError", good_select |-> << >>, warnings |-> << >>]
      ELSE
        LET good == SelectSeq(req_select, LAMBDA c : InNames(c, ALLOWED_SELECT))
            bad  == SelectSeq(req_select, LAMBDA c : ~InNames(c, ALLOWED_SELECT))
        IN  [exc |-> "",
             good_select |-> Names(good),
             warnings |->
               (IF bad # << >> THEN << Warning("select_dropped", bad) >> ELSE << >>)
               \o (IF good = << >>
                   THEN << Warning("select_defaulted", DEFAULT_SELECT) >> ELSE << >>)]

\* lines 84-92: exc is the exception that escapes, "" when none does
select_part(sel) ==
  LET req_select == IF SecTruthy(sel) THEN sel.items ELSE StrItems(DEFAULT_SELECT)
  IN  IF sel.ty = "int" \/ \E i \in 1..Len(req_select) : ~Hashable(req_select[i])
      THEN [exc |-> "TypeError", good_select |-> << >>, warnings |-> << >>]
      ELSE
        LET good == SelectSeq(req_select, LAMBDA c : InNames(c, ALLOWED_SELECT))
            bad  == SelectSeq(req_select, LAMBDA c : ~InNames(c, ALLOWED_SELECT))
        IN  [exc |-> "",
             good_select |-> IF good = << >> THEN DEFAULT_SELECT ELSE Names(good),
             warnings |->
               (IF bad # << >> THEN << Warning("select_dropped", bad) >> ELSE << >>)
               \o (IF good = << >>
                   THEN << Warning("select_defaulted", DEFAULT_SELECT) >> ELSE << >>)]

\* where_check testing the field against ALLOWED_SELECT instead of
\* ALLOWED_FIELDS
where_check_select_allowlist(cond) ==
  LET field == cond.field
      op    == cond.op
      val   == cond.value
      Raise(e)  == [exc |-> e, err |-> ""]
      Reject(k) == [exc |-> "", err |-> k]
  IN  IF ~cond.isdict THEN Raise("AttributeError")
      ELSE IF ~Hashable(field) THEN Raise("TypeError")
      ELSE IF ~InNames(field, ALLOWED_SELECT) THEN Reject("where_invalid_field")
      ELSE IF ~Hashable(op) THEN Raise("TypeError")
      ELSE IF ~InNames(op, ALLOWED_OPS) THEN Reject("where_invalid_op")
      ELSE IF op.s = "in" /\ (~IsListOrTuple(val) \/ val.n = 0)
           THEN Reject("where_invalid_in_value")
      ELSE IF op.s = "between" /\ ~(IsListOrTuple(val) /\ val.n = 2)
           THEN Reject("where_invalid_between_value")
      ELSE IF op.s = "ilike" /\ ~IsStr(val) THEN Reject("where_ilike_needs_string")
      ELSE [exc |-> "", err |-> ""]

\* lines 97-116, one iteration of the `where` loop: the exception it raises,
\* else the error it records, else "" and "" (the condition is appended)
where_check(cond) ==
  LET field == cond.field
      op    == cond.op
      val   == cond.value
      Raise(e)  == [exc |-> e, err |-> ""]
      Reject(k) == [exc |-> "", err |-> k]
  IN  IF ~cond.isdict THEN Raise("AttributeError")
      ELSE IF ~Hashable(field) THEN Raise("TypeError")
      ELSE IF ~InNames(field, ALLOWED_FIELDS) THEN Reject("where_invalid_field")
      ELSE IF ~Hashable(op) THEN Raise("TypeError")
      ELSE IF ~InNames(op, ALLOWED_OPS) THEN Reject("where_invalid_op")
      ELSE IF op.s = "in" /\ (~IsListOrTuple(val) \/ val.n = 0)
           THEN Reject("where_invalid_in_value")
      ELSE IF op.s = "between" /\ ~(IsListOrTuple(val) /\ val.n = 2)
           THEN Reject("where_invalid_between_value")
      ELSE IF op.s = "ilike" /\ ~IsStr(val) THEN Reject("where_ilike_needs_string")
      ELSE [exc |-> "", err |-> ""]

\* where_any_check accepting any list/tuple for `between`
where_any_check_any_between(cond) ==
  LET field == cond.field
      op    == cond.op
      val   == cond.value
      Raise(e)  == [exc |-> e, err |-> ""]
      Reject(k) == [exc |-> "", err |-> k]
  IN  IF ~cond.isdict THEN Raise("AttributeError")
      ELSE IF ~Hashable(field) THEN Raise("TypeError")
      ELSE IF ~InNames(field, ALLOWED_FIELDS) THEN Reject("where_any_invalid_field")
      ELSE IF ~Hashable(op) THEN Raise("TypeError")
      ELSE IF ~InNames(op, ALLOWED_OPS) THEN Reject("where_any_invalid_op")
      ELSE IF op.s = "in" /\ (~IsListOrTuple(val) \/ val.n = 0)
           THEN Reject("where_any_invalid_in_value")
      ELSE IF op.s = "between" /\ ~IsListOrTuple(val)
           THEN Reject("where_any_invalid_between_value")
      ELSE IF op.s = "ilike" /\ ~IsStr(val) THEN Reject("where_any_ilike_needs_string")
      ELSE [exc |-> "", err |-> ""]

\* lines 121-134, one iteration of the `where_any` loop
where_any_check(cond) ==
  LET field == cond.field
      op    == cond.op
      val   == cond.value
      Raise(e)  == [exc |-> e, err |-> ""]
      Reject(k) == [exc |-> "", err |-> k]
  IN  IF ~cond.isdict THEN Raise("AttributeError")
      ELSE IF ~Hashable(field) THEN Raise("TypeError")
      ELSE IF ~InNames(field, ALLOWED_FIELDS) THEN Reject("where_any_invalid_field")
      ELSE IF ~Hashable(op) THEN Raise("TypeError")
      ELSE IF ~InNames(op, ALLOWED_OPS) THEN Reject("where_any_invalid_op")
      ELSE IF op.s = "in" /\ (~IsListOrTuple(val) \/ val.n = 0)
           THEN Reject("where_any_invalid_in_value")
      ELSE IF op.s = "between" /\ ~(IsListOrTuple(val) /\ val.n = 2)
           THEN Reject("where_any_invalid_between_value")
      ELSE IF op.s = "ilike" /\ ~IsStr(val) THEN Reject("where_any_ilike_needs_string")
      ELSE [exc |-> "", err |-> ""]

Kept(cond) == [field |-> cond.field, op |-> cond.op, value |-> cond.value]

RECURSIVE where_loop_no_continue(_, _, _)
\* where_loop without the `continue` after an error is recorded: the
\* rejected condition is appended to where_and as well
where_loop_no_continue(items, kept, errors) ==
  IF items = << >> THEN [exc |-> "", kept |-> kept, errors |-> errors]
  ELSE LET cond == Head(items)
           c    == where_check(cond)
       IN  IF c.exc # "" THEN [exc |-> c.exc, kept |-> kept, errors |-> errors]
           ELSE IF c.err # ""
                THEN where_loop_no_continue(Tail(items), Append(kept, Kept(cond)),
                                            Append(errors, Error(c.err, cond)))
                ELSE where_loop_no_continue(Tail(items), Append(kept, Kept(cond)), errors)

RECURSIVE where_loop(_, _, _)
\* lines 95-116: the loop over `spec.get("where") or []`
where_loop(items, kept, errors) ==
  IF items = << >> THEN [exc |-> "", kept |-> kept, errors |-> errors]
  ELSE LET cond == Head(items)
           c    == where_check(cond)
       IN  IF c.exc # "" THEN [exc |-> c.exc, kept |-> kept, errors |-> errors]
           ELSE IF c.err # ""
                THEN where_loop(Tail(items), kept, Append(errors, Error(c.err, cond)))
                ELSE where_loop(Tail(items), Append(kept, Kept(cond)), errors)

RECURSIVE where_any_loop(_, _, _)
\* lines 119-134: the loop over `spec.get("where_any") or []`
where_any_loop(items, kept, errors) ==
  IF items = << >> THEN [exc |-> "", kept |-> kept, errors |-> errors]
  ELSE LET cond == Head(items)
           c    == where_any_check(cond)
       IN  IF c.exc # "" THEN [exc |-> c.exc, kept |-> kept, errors |-> errors]
           ELSE IF c.err # ""
                THEN where_any_loop(Tail(items), kept, Append(errors, Error(c.err, cond)))
                ELSE where_any_loop(Tail(items), Append(kept, Kept(cond)), errors)

\* bool(x) of a direction value, as `ob.get("direction") or "asc"` tests it
DirTruthy(d) == d.ty \notin {"missing", "none"} /\ d.n # 0

\* order_check without the .lower() of line 151
order_check_no_lower(ob) ==
  LET Raise(e) == [exc |-> e, err |-> "", warn |-> FALSE, d |-> << >>]
  IN  IF ~ob.isdict THEN Raise("AttributeError")
      ELSE LET f    == ob.field
               dval == IF DirTruthy(ob.direction) THEN ob.direction ELSE ScStr(ASC)
           IN  IF dval.ty # "str" THEN Raise("AttributeError")
               ELSE LET d == dval.chars
                    IN  IF ~Hashable(f) THEN Raise("TypeError")
                        ELSE IF ~InNames(f, ALLOWED_FIELDS)
                             THEN [exc |-> "", err |-> "order_by_invalid_field",
                                   warn |-> FALSE, d |-> d]
                        ELSE IF d \notin {ASC, DESC}
                             THEN [exc |-> "", err |-> "", warn |-> TRUE, d |-> ASC]
                        ELSE [exc |-> "", err |-> "", warn |-> FALSE, d |-> d]

\* order_check without the `d = "asc"` of line 157: the direction that was
\* warned about is kept
order_check_keeps_direction(ob) ==
  LET Raise(e) == [exc |-> e, err |-> "", warn |-> FALSE, d |-> << >>]
  IN  IF ~ob.isdict THEN Raise("AttributeError")
      ELSE LET f    == ob.field
               dval == IF DirTruthy(ob.direction) THEN ob.direction ELSE ScStr(ASC)
           IN  IF dval.ty # "str" THEN Raise("AttributeError")
               ELSE LET d == Lower(dval.chars)
                    IN  IF ~Hashable(f) THEN Raise("TypeError")
                        ELSE IF ~InNames(f, ALLOWED_FIELDS)
                             THEN [exc |-> "", err |-> "order_by_invalid_field",
                                   warn |-> FALSE, d |-> d]
                        ELSE IF d \notin {ASC, DESC}
                             THEN [exc |-> "", err |-> "", warn |-> TRUE, d |-> d]
                        ELSE [exc |-> "", err |-> "", warn |-> FALSE, d |-> d]

\* lines 150-158, one iteration of the `order_by` loop
order_check(ob) ==
  LET Raise(e) == [exc |-> e, err |-> "", warn |-> FALSE, d |-> << >>]
  IN  IF ~ob.isdict THEN Raise("AttributeError")
      ELSE LET f    == ob.field
               dval == IF DirTruthy(ob.direction) THEN ob.direction ELSE ScStr(ASC)
           IN  IF dval.ty # "str" THEN Raise("AttributeError")
               ELSE LET d == Lower(dval.chars)
                    IN  IF ~Hashable(f) THEN Raise("TypeError")
                        ELSE IF ~InNames(f, ALLOWED_FIELDS)
                             THEN [exc |-> "", err |-> "order_by_invalid_field",
                                   warn |-> FALSE, d |-> d]
                        ELSE IF d \notin {ASC, DESC}
                             THEN [exc |-> "", err |-> "", warn |-> TRUE, d |-> ASC]
                        ELSE [exc |-> "", err |-> "", warn |-> FALSE, d |-> d]

RECURSIVE order_loop(_, _, _, _)
\* lines 148-158: the loop over `spec.get("order_by") or []`
order_loop(items, kept, errors, warnings) ==
  IF items = << >>
  THEN [exc |-> "", kept |-> kept, errors |-> errors, warnings |-> warnings]
  ELSE LET ob == Head(items)
           c  == order_check(ob)
       IN  IF c.exc # ""
           THEN [exc |-> c.exc, kept |-> kept, errors |-> errors, warnings |-> warnings]
           ELSE IF c.err # ""
                THEN order_loop(Tail(items), kept, Append(errors, Error(c.err, ob)), warnings)
                ELSE order_loop(Tail(items),
                                Append(kept, [field |-> ob.field, direction |-> c.d]),
                                errors,
                                IF c.warn
                                THEN Append(warnings, Warning("order_by_defaulted_direction", ob))
                                ELSE warnings)

\* limit_part without the min(..., MAX_LIMIT) of line 164
limit_part_uncapped(rawlimit) ==
  LET limit == IF rawlimit.ty = "missing" THEN ScInt(50) ELSE rawlimit
      conv  == ToInt(limit)
  IN  IF conv.ok /\ conv.v >= 1
      THEN [val |-> conv.v, warnings |-> << >>]
      ELSE [val |-> 50,
            warnings |-> << Warning("limit_defaulted",
                                    IF conv.ok THEN ScInt(conv.v) ELSE limit) >>]

\* limit_part without the warning of line 168
limit_part_silent(rawlimit) ==
  LET limit == IF rawlimit.ty = "missing" THEN ScInt(50) ELSE rawlimit
      conv  == ToInt(limit)
      capped == Min(conv.v, MAX_LIMIT)
  IN  IF conv.ok /\ capped >= 1
      THEN [val |-> capped, warnings |-> << >>]
      ELSE [val |-> 50, warnings |-> << >>]

\* lines 161, 163-169
limit_part(rawlimit) ==
  LET limit == IF rawlimit.ty = "missing" THEN ScInt(50) ELSE rawlimit
      conv  == ToInt(limit)
      capped == Min(conv.v, MAX_LIMIT)
  IN  IF conv.ok /\ capped >= 1
      THEN [val |-> capped, warnings |-> << >>]
      ELSE [val |-> 50,
            warnings |-> << Warning("limit_defaulted",
                                    IF conv.ok THEN ScInt(capped) ELSE limit) >>]

\* offset_part without the max(..., 0) of line 171
offset_part_unclamped(rawoffset) ==
  LET offset == IF rawoffset.ty = "missing" THEN ScInt(0) ELSE rawoffset
      conv   == ToInt(offset)
  IN  IF conv.ok
      THEN [val |-> conv.v, warnings |-> << >>]
      ELSE [val |-> 0, warnings |-> << Warning("offset_defaulted", offset) >>]

\* lines 162, 170-174
offset_part(rawoffset) ==
  LET offset == IF rawoffset.ty = "missing" THEN ScInt(0) ELSE rawoffset
      conv   == ToInt(offset)
  IN  IF conv.ok
      THEN [val |-> Max(conv.v, 0), warnings |-> << >>]
      ELSE [val |-> 0, warnings |-> << Warning("offset_defaulted", offset) >>]

NoSpec == [select |-> << >>, where |-> << >>, where_any |-> << >>,
           order_by |-> << >>, limit |-> 0, offset |-> 0]

\* the call raised e: nothing is returned
Raised(e) == [exc |-> e, ok |-> FALSE, errors |-> << >>, warnings |-> << >>,
              normalized_spec |-> NoSpec]

\* `for x in (spec.get(key) or [])` over a section: the items, or a TypeError
\* for a truthy value that is no list
LoopItems(sec) == IF SecTruthy(sec) THEN sec.items ELSE << >>

sanitize_agent_spec(spec) ==
  LET s == select_part(spec.select)
      w == where_loop(LoopItems(spec.where), << >>, << >>)
      a == where_any_loop(LoopItems(spec.where_any), << >>, w.errors)
      o == order_loop(LoopItems(spec.order_by), << >>, a.errors, s.warnings)
      l == limit_part(spec.limit)
      f == offset_part(spec.offset)
  IN  IF s.exc # "" THEN Raised(s.exc)
      ELSE IF spec.where.ty = "int" THEN Raised("TypeError")
      ELSE IF w.exc # "" THEN Raised(w.exc)
      ELSE IF spec.where_any.ty = "int" THEN Raised("TypeError")
      ELSE IF a.exc # "" THEN Raised(a.exc)
      ELSE IF spec.order_by.ty = "int" THEN Raised("TypeError")
      ELSE IF o.exc # "" THEN Raised(o.exc)
      ELSE [exc |-> "", ok |-> TRUE,
            errors |-> o.errors,
            warnings |-> o.warnings \o l.warnings \o f.warnings,
            normalized_spec |->
              [select |-> s.good_select, where |-> w.kept, where_any |-> a.kept,
               order_by |-> o.kept, limit |-> l.val, offset |-> f.val]]

(***************************************************************************)
(* build_stmt_from_spec (Query_database_tool.py:190-247)                   *)
(***************************************************************************)
\* lines 197-206 / 211-220: the if/elif chain appends one clause for an
\* operator it knows and nothing for any other
clause_of(cond) ==
  LET c  == cond.field.s
      op == cond.op.s
      v  == cond.value
      One(kind) == << [col |-> c, kind |-> kind, value |-> v] >>
  IN  CASE op = "="       -> One("eq")
        [] op = "!="      -> One("ne")
        [] op = ">"       -> One("gt")
        [] op = ">="      -> One("ge")
        [] op = "<"       -> One("lt")
        [] op = "<="      -> One("le")
        [] op = "ilike"   -> One("ilike")
        [] op = "in"      -> One("in_")
        [] op = "between" -> One("between")
        [] OTHER          -> << >>

RECURSIVE clauses_of(_)
clauses_of(conds) ==
  IF conds = << >> THEN << >> ELSE clause_of(Head(conds)) \o clauses_of(Tail(conds))

NoPredicate == [op |-> "none", args |-> << >>, nested_or |-> << >>]

\* combine passing the or-group's clauses to and_ one by one: and_(*and_clauses,
\* *or_clauses)
combine_flat(and_clauses, or_clauses) ==
  IF and_clauses # << >> /\ or_clauses # << >>
  THEN [op |-> "and", args |-> and_clauses \o or_clauses, nested_or |-> << >>]
  ELSE IF and_clauses # << >>
  THEN [op |-> "and", args |-> and_clauses, nested_or |-> << >>]
  ELSE IF or_clauses # << >>
  THEN [op |-> "or", args |-> or_clauses, nested_or |-> << >>]
  ELSE [op |-> "none", args |-> << >>, nested_or |-> << >>]

\* lines 222-227: and_(*and_clauses, or_(*or_clauses)) is op "and" with the
\* or-group nested as its last argument
combine(and_clauses, or_clauses) ==
  IF and_clauses # << >> /\ or_clauses # << >>
  THEN [op |-> "and", args |-> and_clauses, nested_or |-> or_clauses]
  ELSE IF and_clauses # << >>
  THEN [op |-> "and", args |-> and_clauses, nested_or |-> << >>]
  ELSE IF or_clauses # << >>
  THEN [op |-> "or", args |-> or_clauses, nested_or |-> << >>]
  ELSE NoPredicate

\* line 242
order_of(ob) == [col |-> ob.field.s,
                 dir |-> IF ob.direction = ASC THEN "asc" ELSE "desc"]

NoStmt == [columns |-> << >>, whereclause |-> NoPredicate, order_by |-> << >>,
           limit |-> 0, offset |-> 0]

build_stmt_from_spec(normalized) ==
  [columns     |-> normalized.select,
   whereclause |-> combine(clauses_of(normalized.where),
                           clauses_of(normalized.where_any)),
   order_by    |-> [i \in 1..Len(normalized.order_by) |-> order_of(normalized.order_by[i])],
   limit       |-> normalized.limit,
   offset      |-> normalized.offset]

(***************************************************************************)
(* Raw specs the tool is called with                                       *)
(***************************************************************************)
\* sequences of length n over Full with at most one element outside Core
OneOff(Core, Full, n) ==
  [1..n -> Core]
    \cup UNION { { [j \in 1..n |-> IF j = i THEN x ELSE s[j]] : s \in [1..n -> Core], x \in Full \ Core }
                 : i \in 1..n }

UpTo(Core, Full, max) == UNION { OneOff(Core, Full, n) : n \in 0..max }

CondFields == { Str("bedrooms"), Str("hdp_url"), NoneName, IntName, Unhashable }
CondOps    == { Str(o) : o \in ALLOWED_OPS } \cup { Str("like"), NoneName, Unhashable }
CondValues == { PyInt(2), PyNone, PyStr(3),
                PyList(0), PyList(2), PyList(3), PyTuple(0), PyTuple(2) }

CoreConds == { Cond(Str("address_city"), Str("ilike"), PyStr(3)),
               Cond(Str("hdp_url"), Str("="), PyStr(1)) }
FullConds == CoreConds
               \cup { Cond(f, Str("="), PyInt(2)) : f \in CondFields }
               \cup { Cond(Str("bedrooms"), o, v) : o \in CondOps, v \in CondValues }
               \cup { NotADictCond }

Directions == { Missing, ScNone, ScInt(0), ScInt(1), ScList(0), ScList(1) }
                \cup { ScStr(cs) : cs \in { ASC, DESC, << "A", "S", "C" >>,
                                            << "D", "e", "s", "c" >>, << "u", "p" >>, << >> } }

CoreObs == { Ob(Str("bedrooms"), ScStr(DESC)),
             Ob(Str("hdp_url"), Missing) }
FullObs == CoreObs
             \cup { Ob(f, d) : f \in CondFields, d \in Directions }
             \cup { NotADictOb }

SelectItems == { Str("bedrooms"), Str("hdp_url"), Str("tags_any"), IntName, Unhashable }

Scalars ==
  { Missing, ScNone, ScNaN, ScList(0), ScList(2), ScBool(TRUE), ScBool(FALSE) }
    \cup { ScInt(n) : n \in { 0 - 7, 0 - 1, 0, 1, 5, 49, 50, 51, 1000 } }
    \cup { ScFloat(h) : h \in { 0 - 5, 0 - 1, 1, 5, 101 } }
    \cup { ScStr(cs) : cs \in { << >>, << "5" >>, << " ", "7", " " >>, << "-", "3" >>,
                                << "+", "1", "2" >>, << "0" >>, << "9", "9" >>,
                                << "4", ".", "5" >>, << "t", "e", "n" >>, << "-" >> } }

SelectSecs == { SecMissing, SecNone, SecScalar }
                \cup { SecList(s) : s \in UNION { [1..n -> SelectItems] : n \in 0..MaxSelect } }
CondSecs   == { SecMissing, SecNone, SecScalar }
                \cup { SecList(s) : s \in UpTo(CoreConds, FullConds, MaxConds) }
OrderSecs  == { SecMissing, SecNone, SecScalar }
                \cup { SecList(s) : s \in UpTo(CoreObs, FullObs, MaxOrder) }

Raw(s, w, a, o, l, f) ==
  [select |-> s, where |-> w, where_any |-> a, order_by |-> o, limit |-> l, offset |-> f]

CoreSelect == { SecMissing, SecList(<< >>), SecList(<< Str("bedrooms"), Str("tags_any") >>) }
CoreWhere  == { SecMissing, SecList(<< Cond(Str("bedrooms"), Str(">="), PyInt(2)) >>),
                SecList(<< Cond(Str("hdp_url"), Str("="), PyStr(1)),
                           Cond(Str("address_city"), Str("ilike"), PyStr(3)) >>) }
CrossWhere == { SecMissing, SecList(<< Cond(Str("bedrooms"), Str(">="), PyInt(2)) >>) }
CoreOrder  == { SecMissing, SecList(<< Ob(Str("listing_price"), ScStr(ASC)) >>),
                SecList(<< Ob(Str("bedrooms"), ScStr(<< "u", "p" >>)) >>) }
CoreLimit  == { Missing, ScInt(5), ScInt(0) }
CoreOffset == { Missing, ScInt(2), ScStr(<< "t", "e", "n" >>) }

\* every section drawn from its core
CoreSpecs ==
  { Raw(s, w, a, o, l, f) : s \in CoreSelect, w \in CoreWhere, a \in CoreWhere,
                            o \in CoreOrder, l \in CoreLimit, f \in CoreOffset }

\* the core specs, and every spec that varies one section over all its values
RawSpecs ==
  CoreSpecs
    \cup { Raw(s, SecMissing, SecMissing, SecMissing, Missing, Missing) : s \in SelectSecs }
    \cup { Raw(SecMissing, w, a, SecMissing, Missing, Missing) :
             w \in CondSecs, a \in CrossWhere }
    \cup { Raw(SecMissing, w, a, SecMissing, Missing, Missing) :
             w \in CrossWhere, a \in CondSecs }
    \cup { Raw(SecMissing, SecMissing, SecMissing, o, Missing, Missing) : o \in OrderSecs }
    \cup { Raw(SecMissing, SecMissing, SecMissing, SecMissing, l, f) :
             l \in Scalars, f \in CoreOffset }
    \cup { Raw(SecMissing, SecMissing, SecMissing, SecMissing, l, f) :
             l \in CoreLimit, f \in Scalars }

(***************************************************************************)
(* The listing table and upsert_listing (Database_tools.py)                *)
(***************************************************************************)
\* jsonb values: SQL NULL, an object (a set of <<key, value>> pairs) or an
\* array of objects
JNull       == [ty |-> "null",   obj |-> {}, arr |-> << >>]
JObj(pairs) == [ty |-> "object", obj |-> pairs, arr |-> << >>]
JArr(items) == [ty |-> "array",  obj |-> {}, arr |-> items]
\* text that is no JSON document
NotJson     == [ty |-> "invalid", obj |-> {}, arr |-> << >>]

\* Python values of a JSON column of the record
JMissing     == [ty |-> "missing", json |-> JNull]
JNone        == [ty |-> "none",    json |-> JNull]
JDict(pairs) == [ty |-> "dict",    json |-> JObj(pairs)]
JList(items) == [ty |-> "list",    json |-> JArr(items)]
JText(j)     == [ty |-> "str",     json |-> j]

\* a key the record does not have
AbsentKey == [ty |-> "missing", s |-> ""]
PyAbsent  == [ty |-> "missing", n |-> 0]

\* record.get(col, None) for a column of plain type
get_name(v)  == IF v.ty = "missing" THEN NoneName ELSE v
get_plain(v) == IF v.ty = "missing" THEN PyNone ELSE v

\* lines 128-137: the JSON branch of _coerce_payload, giving the bind
\* parameter: None, or the JSON text of a dict/list, or str(val)
SqlNull      == [null |-> TRUE,  json |-> JNull]
SqlText(j)   == [null |-> FALSE, json |-> j]
coerce_json(val) ==
  IF val.ty \in {"missing", "none"} THEN SqlNull
  ELSE IF val.ty \in {"dict", "list"} THEN SqlText(val.json)
  ELSE SqlText(val.json)

\* _coerce_payload(record), for the columns of the model
coerce_payload(rec) ==
  [external_id         |-> get_name(rec.external_id),
   listing_data_source |-> get_name(rec.listing_data_source),
   bedrooms            |-> get_plain(rec.bedrooms),
   nearby_homes        |-> coerce_json(rec.nearby_homes),
   price_history       |-> coerce_json(rec.price_history),
   updated_at          |-> get_name(rec.updated_at)]

\* not record.get(key): None, "" and a missing key are falsy
falsy(v) == get_name(v).ty = "none" \/ get_name(v) = Str("")

\* line 148 with `and` for `or`
missing_ids_both(rec) == falsy(rec.external_id) /\ falsy(rec.listing_data_source)

\* line 148
missing_ids(rec) == falsy(rec.external_id) \/ falsy(rec.listing_data_source)

\* CAST(:param AS jsonb): NULL stays NULL, text that is no JSON is an error
castable(p) == p.null \/ p.json.ty # "invalid"
cast_jsonb(p) == IF p.null THEN JNull ELSE p.json

\* COALESCE(x, '{}'::jsonb)
coalesce_obj(x) == IF x.ty = "null" THEN JObj({}) ELSE x

ObjKeys(pairs) == { kv[1] : kv \in pairs }
AsArray(x) == IF x.ty = "array" THEN x.arr ELSE << x >>

\* jsonb || jsonb: two objects give the union of their keys with the second
\* object's value for a key of both; in every other case a non-array operand
\* becomes a one-element array and the arrays are concatenated
jsonb_concat(a, b) ==
  IF a.ty = "object" /\ b.ty = "object"
  THEN JObj(b.obj \cup { kv \in a.obj : kv[1] \notin ObjKeys(b.obj) })
  ELSE JArr(AsArray(a) \o AsArray(b))

\* lines 46-76: the row INSERT proposes (EXCLUDED)
excluded(p) ==
  [external_id         |-> p.external_id,
   listing_data_source |-> p.listing_data_source,
   bedrooms            |-> p.bedrooms,
   nearby_homes        |-> cast_jsonb(p.nearby_homes),
   price_history       |-> cast_jsonb(p.price_history),
   updated_at          |-> p.updated_at]

\* lines 77-115: DO UPDATE SET of the row in conflict
do_update(old, new) ==
  [external_id         |-> old.external_id,
   listing_data_source |-> old.listing_data_source,
   bedrooms            |-> new.bedrooms,
   nearby_homes        |-> new.nearby_homes,
   price_history       |-> jsonb_concat(coalesce_obj(old.price_history),
                                        coalesce_obj(new.price_history)),
   updated_at          |-> IF new.updated_at = NoneName THEN old.updated_at
                           ELSE new.updated_at]

\* ON CONFLICT (listing_data_source, external_id)
conflicts(rows, new) ==
  { r \in rows : /\ r.listing_data_source = new.listing_data_source
                 /\ r.external_id = new.external_id }

\* UPSERT_SQL executed with the payload p on the table rows
upsert_sql(rows, p) ==
  LET new == excluded(p)
      hit == conflicts(rows, new)
  IN  IF hit = {} THEN rows \cup { new }
      ELSE (rows \ hit) \cup { do_update(old, new) : old \in hit }

\* the records upsert_listing is called with
D1 == { << "d1", 1 >> }
D2 == { << "d1", 2 >>, << "d2", 1 >> }
IdValues      == { AbsentKey, NoneName, Str(""), Str("z1") }
SourceValues  == { AbsentKey, Str(""), Str("zillow") }
HistoryValues ==
  { JMissing, JNone, JDict(D1), JDict(D2), JList(<< >>), JList(<< JObj(D1) >>),
    JText(JObj(D1)), JText(NotJson) }
StampValues   == { AbsentKey, Str("2025-01-01"), Str("2025-02-02") }
Rec(id, src, beds, near, history, stamp) ==
  [external_id |-> id, listing_data_source |-> src, bedrooms |-> beds,
   nearby_homes |-> near, price_history |-> history, updated_at |-> stamp]
UpsertRecords ==
  { Rec(Str("z1"), Str("zillow"), PyAbsent, JMissing, h, st) :
      h \in HistoryValues, st \in StampValues }
    \cup { Rec(Str("z1"), Str("zillow"), PyInt(2), near, JMissing, AbsentKey) :
             near \in { JNone, JList(<< JObj(D1) >>), JText(NotJson) } }
    \cup { Rec(id, src, PyInt(2), JMissing, JDict(D1), Str("2025-01-01")) :
             id \in IdValues, src \in SourceValues }
    \cup { Rec(Str("z2"), Str("zillow"), PyInt(3), JMissing, JMissing, AbsentKey) }

NoRecord  == Rec(AbsentKey, AbsentKey, PyAbsent, JMissing, JMissing, AbsentKey)
NoUResult == [status |-> "none", error |-> FALSE, exc |-> ""]

\* no call of upsert_listing yet, the table empty
UpsertIdle ==
  /\ record = NoRecord
  /\ upc = "u_idle"
  /\ listing_rows = {}
  /\ before = {}
  /\ store_ops = << >>
  /\ uresult = NoUResult

(***************************************************************************)
(* Scraped listings: get_listing_info and process_brightdata_snapshot      *)
(* (Zillow_tools.py:76-112)                                                *)
(***************************************************************************)
\* values of a listing item's keys: a missing key, None, a list, a str
LMissing   == [ty |-> "missing", items |-> << >>, chars |-> << >>]
LNone      == [ty |-> "none",    items |-> << >>, chars |-> << >>]
LList(xs)  == [ty |-> "list",    items |-> xs,    chars |-> << >>]
LStr(cs)   == [ty |-> "str",     items |-> << >>, chars |-> cs]

\* the defaults of lines 79-81
DEFAULT_KWARGS == [max_photos |-> 5, max_price_history |-> 5, max_desc_chars |-> 800]

\* Python slices seq[:n] and seq[k:], for any integers n and k
SliceTo(seq, n) ==
  SubSeq(seq, 1, IF n >= 0 THEN Min(n, Len(seq)) ELSE Max(Len(seq) + n, 0))
SliceFrom(seq, k) ==
  SubSeq(seq, (IF k >= 0 THEN Min(k, Len(seq)) ELSE Max(Len(seq) + k, 0)) + 1, Len(seq))

\* str.rstrip(): trailing whitespace removed
RECURSIVE rstrip(_)
rstrip(cs) ==
  IF cs # << >> /\ cs[Len(cs)] = " " THEN rstrip(SubSeq(cs, 1, Len(cs) - 1)) ELSE cs

\* line 84: listing_item.get(k, None)
item_get(listing_item, k) ==
  IF listing_item[k].ty = "missing" THEN LNone ELSE listing_item[k]

\* line 92: ph[-max_price_history:]
last_entries(ph, max_price_history) == SliceFrom(ph, 0 - max_price_history)

\* the one character U+2026 appended at line 97
ELLIPSIS == "..."

\* lines 94-97 for one text
cut_text(val, max_desc_chars) ==
  IF val.ty = "str" /\ Len(val.chars) > max_desc_chars
  THEN LStr(Append(rstrip(SliceTo(val.chars, max_desc_chars)), ELLIPSIS))
  ELSE val

\* get_listing_info(listing_item, selected_keys, **kw): out is a dict over
\* selected_keys
get_listing_info(listing_item, keys, kw) ==
  LET out0 == [k \in keys |-> item_get(listing_item, k)]
      out1 == IF "photos" \in keys /\ out0["photos"].ty = "list"
              THEN [out0 EXCEPT !["photos"] = LList(SliceTo(@.items, kw.max_photos))]
              ELSE out0
      out2 == IF "priceHistory" \in keys /\ out1["priceHistory"].ty = "list"
              THEN [out1 EXCEPT !["priceHistory"] =
                                  LList(last_entries(@.items, kw.max_price_history))]
              ELSE out1
  IN  [k \in keys |-> IF k \in {"description", "overview"}
                      THEN cut_text(out2[k], kw.max_desc_chars)
                      ELSE out2[k]]

\* snapshot outputs: a list of items (dicts or not), a dict with or without a
\* truthy "error", anything else
Item(p, h, d, o) ==
  [isdict |-> TRUE, zpid |-> LStr(<< "1" >>), photos |-> p, priceHistory |-> h,
   description |-> d, overview |-> o]
NotADictItem ==
  [isdict |-> FALSE, zpid |-> LMissing, photos |-> LMissing, priceHistory |-> LMissing,
   description |-> LMissing, overview |-> LMissing]
SnapList(items) == [ty |-> "list",  items |-> items, error |-> FALSE]
SnapDict(err)   == [ty |-> "dict",  items |-> << >>, error |-> err]
SnapOther       == [ty |-> "other", items |-> << >>, error |-> FALSE]

\* lines 102-112
process_brightdata_snapshot(output, keys, kw) ==
  IF output.ty = "dict" /\ output.error
  THEN [success |-> FALSE, count |-> 0, listings |-> << >>, error_payload |-> "snapshot_output"]
  ELSE IF output.ty = "list"
  THEN LET dicts == SelectSeq(output.items, LAMBDA item : item.isdict)
           listings == [i \in 1..Len(dicts) |-> get_listing_info(dicts[i], keys, kw)]
       IN  [success |-> TRUE, count |-> Len(listings), listings |-> listings,
            error_payload |-> ""]
  ELSE [success |-> FALSE, count |-> 0, listings |-> << >>,
        error_payload |-> "Unexpected snapshot output type"]

\* the inputs: lists 1..n, texts of letters and blanks
Lists == { LList([i \in 1..n |-> i]) : n \in 0..MaxList }
Texts == { LStr(cs) : cs \in UNION { [1..n -> {"a", " "}] : n \in 0..MaxList } }
ListValues == Lists \cup { LMissing, LNone, LStr(<< "a" >>) }
TextValues == Texts \cup { LMissing, LNone }
CoreLists  == { LList(<< >>), LList(<< 1, 2 >>) }
CoreTexts  == { LStr(<< "a", " ", "a" >>) }
Items ==
  { Item(p, h, d, d) : p \in CoreLists, h \in CoreLists, d \in CoreTexts }
    \cup { Item(p, LMissing, LMissing, LMissing) : p \in ListValues }
    \cup { Item(LMissing, h, LMissing, LMissing) : h \in ListValues }
    \cup { Item(LMissing, LMissing, d, o) : d \in TextValues, o \in CoreTexts \cup { LMissing } }
CoreItems == { Item(p, p, d, d) : p \in CoreLists, d \in CoreTexts }
Snapshots ==
  { SnapList(<< item >>) : item \in Items }
    \cup { SnapList(items) :
             items \in UNION { [1..n -> CoreItems \cup { NotADictItem }] : n \in 0..MaxSnapshot } }
    \cup { SnapDict(TRUE), SnapDict(FALSE), SnapOther }
AllKeys  == { "zpid", "photos", "priceHistory", "description", "overview" }
KeySets  == { AllKeys, { "zpid" }, { "zpid", "photos", "description" } }
Kwargs ==
  { DEFAULT_KWARGS }
    \cup [max_photos : 0..MaxKwarg, max_price_history : 0..MaxKwarg,
          max_desc_chars : 0..MaxKwarg]

NoLResult == [success |-> FALSE, count |-> 0, listings |-> << >>, error_payload |-> "not called"]

\* process_brightdata_snapshot not called
ListingIdle ==
  /\ snapshot_output = SnapOther
  /\ selected_keys = {}
  /\ kwargs = DEFAULT_KWARGS
  /\ lpc = "l_idle"
  /\ lresult = NoLResult

(***************************************************************************)
(* The poll of a snapshot: retrieve_snapshot_from_brightData                *)
(* (Zillow_tools.py:116-201)                                                *)
(***************************************************************************)
\* the keys BRIGHTDATA_LISTING_SNAPSHOT_KEYS the poll passes on (line 183)
SNAPSHOT_KEYS == AllKeys

\* a response: its status code, its text, and what resp.json() gives (no
\* JSON at all when isjson is false)
Resp(code, text, isjson, body) ==
  [status_code |-> code, text |-> text, isjson |-> isjson, json |-> body]
PollResponses ==
  { Resp(202, "", FALSE, SnapOther), Resp(404, "not found", FALSE, SnapOther),
    Resp(500, "error", TRUE, SnapDict(TRUE)), Resp(200, "csv", FALSE, SnapOther) }
    \cup { Resp(200, "json", TRUE, b) :
             b \in { SnapDict(TRUE), SnapOther,
                     SnapList(<< Item(LList(<< 1, 2 >>), LList(<< 1 >>), LNone, LNone),
                                 NotADictItem >>) } }

\* the message of a failure object: a text, and the seconds it reports
Msg(text, seconds) == [text |-> text, seconds |-> seconds]

NoSnapshot == NoLResult
NoPResult ==
  [status |-> "none", exc |-> "", error |-> FALSE, status_code |-> 0,
   message |-> Msg("", 0), snapshot |-> NoSnapshot]

\* line 183
snapshot_result(resp) ==
  [NoPResult EXCEPT !.status = "returned",
                    !.snapshot = process_brightdata_snapshot(resp.json, SNAPSHOT_KEYS,
                                                             DEFAULT_KWARGS)]
\* lines 191-195
error_result(resp) ==
  [NoPResult EXCEPT !.status = "returned", !.error = TRUE,
                    !.status_code = resp.status_code, !.message = Msg(resp.text, 0)]

\* lines 197-201 reporting the seconds of the sleeps between the requests only
timeout_result_between(i, m) ==
  [NoPResult EXCEPT !.status = "returned", !.error = TRUE, !.status_code = 408,
                    !.message = Msg("not ready after", i * (m - 1))]

\* lines 197-201
timeout_result(i, m) ==
  [NoPResult EXCEPT !.status = "returned", !.error = TRUE, !.status_code = 408,
                    !.message = Msg("not ready after", i * m)]

Intervals == { 0, 1, 60 }

\* retrieve_snapshot_from_brightData not called
PollIdle ==
  /\ max_attempts = 0
  /\ interval = 0
  /\ ppc = "p_idle"
  /\ attempt = 0
  /\ responses = << >>
  /\ sleeps = << >>
  /\ presult = NoPResult

(***************************************************************************)
(* The engine singleton (init_db_engine.py:9-29)                           *)
(***************************************************************************)
Callers  == 1..MaxCallers
\* nobody holds _lock
FREE     == 0
\* the thread that calls set_database_url
RESETTER == MaxCallers + 1

NoHist ==
  [start_resets |-> [t \in Callers |-> 0],
   start_floor  |-> [t \in Callers |-> 0],
   first_lock   |-> 0]
NoResets == [started |-> 0, prev |-> 0, done |-> 0, floor |-> 0]

\* the module is imported, nothing called
EngineIdle ==
  /\ _engine = 0
  /\ _lock = FREE
  /\ DATABASE_URL = 0
  /\ built = << >>
  /\ disposed = {}
  /\ tpc = [t \in Callers |-> "idle"]
  /\ eng = [t \in Callers |-> 0]
  /\ hist = NoHist
  /\ rpc = "idle"
  /\ resets = NoResets

(***************************************************************************)
(* The departure time (GoogleMaps_tools.py:12-26).  A date is the number   *)
(* of days since a Monday, so that date.weekday() is the number modulo 7   *)
(* (Monday is 0, as in datetime); a datetime is a date with the hour, the  *)
(* minute and the second of the wall clock of the time zone, whose offset  *)
(* from UTC is taken constant over the days modelled.                      *)
(***************************************************************************)
DAYS_PER_WEEK      == 7
SECONDS_PER_MINUTE == 60
SECONDS_PER_HOUR   == 3600
SECONDS_PER_DAY    == 86400
\* the weekday aimed at: the 0 of `0 - now.weekday()` (line 17)
TARGET_WEEKDAY     == 0

DateTime(d, h, m, s) == [date |-> d, hour |-> h, minute |-> m, second |-> s]
weekday(d) == d % DAYS_PER_WEEK
\* aware_dt.timestamp(), counted from 00:00:00 of day 0 in the time zone
timestamp(t) ==
  t.date * SECONDS_PER_DAY + t.hour * SECONDS_PER_HOUR
    + t.minute * SECONDS_PER_MINUTE + t.second

\* dt.time(hour, minute) raises ValueError outside 0..23 and 0..59 (line 14)
valid_time(h, m) == h \in 0..23 /\ m \in 0..59

\* lines 17-19 without the step from 0 to 7
days_ahead_same_day(n) == (TARGET_WEEKDAY - weekday(n.date)) % DAYS_PER_WEEK
\* lines 17-19: the days to the target weekday, a whole week on that weekday
days_ahead(n) ==
  LET d == (TARGET_WEEKDAY - weekday(n.date)) % DAYS_PER_WEEK
  IN  IF d = 0 THEN DAYS_PER_WEEK ELSE d

\* aware_dt.isoformat(): the date, "T" and the time of the wall clock (line 24)
isoformat(t) == <<t.date, "T", t.hour, ":", t.minute, ":", t.second>>

NoDeparture == [status |-> "none", aware_dt |-> DateTime(0, 0, 0, 0),
                unix_seconds |-> 0, rfc3339 |-> << >>]
\* lines 14-26
get_departure_time(n, h, m) ==
  IF ~valid_time(h, m)
    THEN [NoDeparture EXCEPT !.status = "raised"]
    ELSE LET target_date == n.date + days_ahead(n)
             aware_dt    == DateTime(target_date, h, m, 0)
         IN  [status |-> "returned", aware_dt |-> aware_dt,
              unix_seconds |-> timestamp(aware_dt),
              rfc3339 |-> isoformat(aware_dt)]

NowHours       == { 0, 7, 8, 9, 23 }
NowMinutes     == { 0, 30, 59 }
NowSeconds     == { 0, 59 }
DepartHours    == { 0, 8, 23, 24 }
DepartMinutes  == { 0, 30 }
Nows ==
  { DateTime(d, h, m, s) :
      d \in 0..MaxDay, h \in NowHours, m \in NowMinutes, s \in NowSeconds }

\* get_departure_time not called
DepartureIdle ==
  /\ now = DateTime(0, 0, 0, 0)
  /\ departure_time_hour = 0
  /\ departure_time_minute = 0
  /\ dpc = "d_idle"
  /\ dresult = NoDeparture

(***************************************************************************)
(* Spec: one raw spec is sanitized and the normalized spec compiled        *)
(***************************************************************************)
NoCheck  == Raised("not called")
NoResult == [status |-> "none", exc |-> "", ok |-> FALSE, errors |-> << >>,
             warnings |-> << >>, limit |-> 0, offset |-> 0, returned |-> 0 - 1,
             data |-> << >>]

\* sanitize_agent_spec not called a second time
RecheckIdle == recheck = NoCheck

\* the resting values of the variables a specification leaves alone
NotQueryIdle ==
  UpsertIdle /\ ListingIdle /\ PollIdle /\ EngineIdle /\ DepartureIdle /\ RecheckIdle

Idle ==
  /\ check = NoCheck
  /\ stmt = NoStmt
  /\ engine = "none"
  /\ LISTING = FALSE
  /\ pool_out = 0
  /\ data = << >>
  /\ exc = ""
  /\ result = NoResult

Init ==
  /\ raw \in RawSpecs
  /\ pc = "start"
  /\ Idle
  /\ NotQueryIdle

\* check = sanitize_agent_spec(spec)
Sanitize ==
  /\ pc = "start"
  /\ check' = sanitize_agent_spec(raw)
  /\ pc' = IF check'.exc # "" THEN "raised" ELSE "sanitized"
  /\ UNCHANGED <<raw, stmt, engine, LISTING, pool_out, data, exc, result>>
  /\ UNCHANGED notQuery

\* stmt = build_stmt_from_spec(check["normalized_spec"])
Compile ==
  /\ pc = "sanitized"
  /\ stmt' = build_stmt_from_spec(check.normalized_spec)
  /\ pc' = "compiled"
  /\ UNCHANGED <<raw, check, engine, LISTING, pool_out, data, exc, result>>
  /\ UNCHANGED notQuery

\* the normalized_spec dict of lines 176-183 as the `spec` argument of a call:
\* select is a list of str, where / where_any lists of dicts with the keys
\* field, op and value, order_by a list of dicts with a str direction, limit
\* and offset ints
as_spec(normalized) ==
  Raw(SecList(StrItems(normalized.select)),
      SecList([i \in 1..Len(normalized.where) |->
                 Cond(normalized.where[i].field, normalized.where[i].op,
                      normalized.where[i].value)]),
      SecList([i \in 1..Len(normalized.where_any) |->
                 Cond(normalized.where_any[i].field, normalized.where_any[i].op,
                      normalized.where_any[i].value)]),
      SecList([i \in 1..Len(normalized.order_by) |->
                 Ob(normalized.order_by[i].field,
                    ScStr(normalized.order_by[i].direction))]),
      ScInt(normalized.limit),
      ScInt(normalized.offset))

\* sanitize_agent_spec(check["normalized_spec"])
Resanitize ==
  /\ pc \in {"sanitized", "compiled"}
  /\ recheck = NoCheck
  /\ recheck' = sanitize_agent_spec(as_spec(check.normalized_spec))
  /\ UNCHANGED <<queryVars, upsertVars, listingVars, pollVars, engineVars, departVars>>

Next == Sanitize \/ Compile \/ Resanitize

Spec == Init /\ [][Next]_vars

(***************************************************************************)
(* SpecQuery: calls of query_listing_table (Query_database_tool.py:338-406) *)
(* against a database that may fail at any step.  engine is the singleton   *)
(* _engine of init_db_engine.py, LISTING the cached reflected table,        *)
(* pool_out the number of pooled connections checked out, exc the exception *)
(* in flight, result what the call returned or raised.                      *)
(***************************************************************************)
QuerySpecs ==
  { Raw(s, w, a, SecMissing, l, Missing) :
      s \in CoreSelect,
      w \in CoreWhere \cup { SecList(<< NotADictCond >>) },
      a \in CrossWhere,
      l \in { Missing, ScInt(1), ScInt(0) } }
    \cup { Raw(SecMissing, SecMissing, SecMissing, o, Missing, f) :
             o \in CoreOrder \cup { SecList(<< Ob(Str("bedrooms"), ScInt(1)) >>) },
             f \in CoreOffset }

InitQuery ==
  /\ raw \in QuerySpecs
  /\ pc = "q_idle"
  /\ Idle
  /\ NotQueryIdle

\* the agent runtime calls the tool
Call ==
  /\ pc \in {"q_idle", "q_done"}
  /\ pc' = "q_sanitize"
  /\ check' = NoCheck
  /\ stmt' = NoStmt
  /\ data' = << >>
  /\ exc' = ""
  /\ result' = NoResult
  /\ UNCHANGED <<raw, engine, LISTING, pool_out>>
  /\ UNCHANGED notQuery

\* the exception e leaves query_listing_table
Escapes(e) ==
  /\ result' = [NoResult EXCEPT !.status = "raised", !.exc = e]
  /\ pc' = "q_done"

\* lines 373-374, outside the try
QSanitize ==
  /\ pc = "q_sanitize"
  /\ check' = sanitize_agent_spec(raw)
  /\ IF check'.exc # ""
     THEN Escapes(check'.exc)
     ELSE pc' = "q_engine" /\ UNCHANGED result
  /\ UNCHANGED <<raw, stmt, engine, LISTING, pool_out, data, exc>>
  /\ UNCHANGED notQuery

\* line 375, outside the try: get_engine() (init_db_engine.py:12-21) returns
\* the singleton, building it on first use; create_engine may raise
GetEngine ==
  /\ pc = "q_engine"
  /\ \/ /\ engine = "built"
        /\ pc' = "q_begin"
        /\ UNCHANGED <<engine, result>>
     \/ /\ engine = "none"
        /\ engine' = "built"
        /\ pc' = "q_begin"
        /\ UNCHANGED result
     \/ /\ engine = "none"
        /\ Escapes("ArgumentError")
        /\ UNCHANGED engine
  /\ UNCHANGED <<raw, check, stmt, LISTING, pool_out, data, exc>>
  /\ UNCHANGED notQuery

\* line 379: engine.begin() checks a connection out of the pool and begins a
\* transaction, or raises
Begin ==
  /\ pc = "q_begin"
  /\ \/ pool_out' = pool_out + 1 /\ pc' = "q_set" /\ UNCHANGED exc
     \/ exc' = "OperationalError" /\ pc' = "q_except" /\ UNCHANGED pool_out
  /\ UNCHANGED <<raw, check, stmt, engine, LISTING, data, result>>
  /\ UNCHANGED notQuery

\* Abort with a with block that forgets to give the connection back
Abort_leaks(e) ==
  /\ exc' = e
  /\ pool_out' = pool_out
  /\ pc' = "q_except"

\* an exception inside the with block: rollback, the connection goes back
Abort(e) ==
  /\ exc' = e
  /\ pool_out' = pool_out - 1
  /\ pc' = "q_except"

\* lines 380-381: the two SET LOCAL statements
SetLocal ==
  /\ pc = "q_set"
  /\ \/ pc' = "q_build" /\ UNCHANGED <<exc, pool_out>>
     \/ Abort("OperationalError")
  /\ UNCHANGED <<raw, check, stmt, engine, LISTING, data, result>>
  /\ UNCHANGED notQuery

\* line 383 -> col() -> _listing_table (lines 68-72): on first use the table
\* is reflected with autoload_with=engine, over a connection of its own
Reflect ==
  /\ pc = "q_build"
  /\ ~LISTING
  /\ pool_out' = pool_out + 1
  /\ pc' = "q_reflect"
  /\ UNCHANGED <<raw, check, stmt, engine, LISTING, data, exc, result>>
  /\ UNCHANGED notQuery

\* the reflection ends: its connection goes back, and either the table is
\* cached or the failure aborts the with block
Reflected ==
  /\ pc = "q_reflect"
  /\ \/ /\ LISTING' = TRUE
        /\ pool_out' = pool_out - 1
        /\ pc' = "q_build"
        /\ UNCHANGED exc
     \/ /\ exc' = "NoSuchTableError"
        /\ pool_out' = pool_out - 2
        /\ pc' = "q_except"
        /\ UNCHANGED LISTING
  /\ UNCHANGED <<raw, check, stmt, engine, data, result>>
  /\ UNCHANGED notQuery

\* line 383: build_stmt_from_spec(normalized); a column the reflected table
\* lacks is a KeyError
BuildStmt ==
  /\ pc = "q_build"
  /\ LISTING
  /\ \/ /\ stmt' = build_stmt_from_spec(check.normalized_spec)
        /\ pc' = "q_execute"
        /\ UNCHANGED <<exc, pool_out>>
     \/ Abort("KeyError") /\ UNCHANGED stmt
  /\ UNCHANGED <<raw, check, engine, LISTING, data, result>>
  /\ UNCHANGED notQuery

\* lines 384-385: the statement returns at most `limit` rows, or raises
Execute ==
  /\ pc = "q_execute"
  /\ \/ \E n \in 0..Min(MaxRows, stmt.limit) :
          /\ data' = [i \in 1..n |-> [row |-> i, columns |-> stmt.columns]]
          /\ pc' = "q_commit"
          /\ UNCHANGED <<exc, pool_out>>
     \/ Abort("OperationalError") /\ UNCHANGED data
  /\ UNCHANGED <<raw, check, stmt, engine, LISTING, result>>
  /\ UNCHANGED notQuery

\* the with block ends: commit, the connection goes back; a failed commit
\* raises
Commit ==
  /\ pc = "q_commit"
  /\ pool_out' = pool_out - 1
  /\ \/ pc' = "q_return" /\ UNCHANGED exc
     \/ exc' = "OperationalError" /\ pc' = "q_except"
  /\ UNCHANGED <<raw, check, stmt, engine, LISTING, data, result>>
  /\ UNCHANGED notQuery

\* lines 387-397
Return ==
  /\ pc = "q_return"
  /\ result' = [status |-> "returned", exc |-> "", ok |-> TRUE,
                errors |-> check.errors, warnings |-> check.warnings,
                limit |-> check.normalized_spec.limit,
                offset |-> check.normalized_spec.offset,
                returned |-> Len(data), data |-> data]
  /\ pc' = "q_done"
  /\ UNCHANGED <<raw, check, stmt, engine, LISTING, pool_out, data, exc>>
  /\ UNCHANGED notQuery

\* Except reporting the execution error alone: "errors": [{"execution_error":
\* str(e)}]
Except_drops_validation_errors ==
  /\ pc = "q_except"
  /\ result' = [status |-> "returned", exc |-> "", ok |-> FALSE,
                errors |-> << [kind |-> "execution_error", entry |-> exc] >>,
                warnings |-> check.warnings,
                limit |-> check.normalized_spec.limit,
                offset |-> check.normalized_spec.offset,
                returned |-> 0 - 1, data |-> << >>]
  /\ pc' = "q_done"
  /\ UNCHANGED <<raw, check, stmt, engine, LISTING, pool_out, data, exc>>
  /\ UNCHANGED notQuery

\* lines 399-406: meta has no `returned` (-1 here)
Except ==
  /\ pc = "q_except"
  /\ result' = [status |-> "returned", exc |-> "", ok |-> FALSE,
                errors |-> Append(check.errors, [kind |-> "execution_error", entry |-> exc]),
                warnings |-> check.warnings,
                limit |-> check.normalized_spec.limit,
                offset |-> check.normalized_spec.offset,
                returned |-> 0 - 1, data |-> << >>]
  /\ pc' = "q_done"
  /\ UNCHANGED <<raw, check, stmt, engine, LISTING, pool_out, data, exc>>
  /\ UNCHANGED notQuery

NextQuery ==
  \/ Call \/ QSanitize \/ GetEngine \/ Begin \/ SetLocal \/ Reflect \/ Reflected
  \/ BuildStmt \/ Execute \/ Commit \/ Return \/ Except

SpecQuery == InitQuery /\ [][NextQuery]_vars

(***************************************************************************)
(* SpecUpsert: calls of upsert_listing (Database_tools.py:142-154), one    *)
(* after the other, against a store that may fail at any step.  Nothing in  *)
(* upsert_listing catches an exception.                                     *)
(***************************************************************************)
\* the query tool at rest
QueryParked ==
  /\ raw = Raw(SecMissing, SecMissing, SecMissing, SecMissing, Missing, Missing)
  /\ pc = "off"
  /\ Idle

InitUpsert ==
  /\ UpsertIdle
  /\ QueryParked
  /\ ListingIdle
  /\ PollIdle
  /\ EngineIdle
  /\ DepartureIdle
  /\ RecheckIdle

\* a caller passes a record
UCall ==
  /\ upc \in {"u_idle", "u_done"}
  /\ \A r \in listing_rows : Len(r.price_history.arr) <= MaxHistory
  /\ record' \in UpsertRecords
  /\ upc' = "u_check"
  /\ before' = listing_rows
  /\ store_ops' = << >>
  /\ uresult' = NoUResult
  /\ UNCHANGED listing_rows
  /\ UNCHANGED notUpsert

\* the exception e leaves upsert_listing
URaises(e) ==
  /\ uresult' = [status |-> "raised", error |-> FALSE, exc |-> e]
  /\ upc' = "u_done"

\* lines 148-151
UCheck ==
  /\ upc = "u_check"
  /\ IF missing_ids(record)
     THEN /\ uresult' = [status |-> "returned", error |-> TRUE, exc |-> ""]
          /\ upc' = "u_done"
     ELSE /\ upc' = "u_engine"
          /\ UNCHANGED uresult
  /\ UNCHANGED <<record, listing_rows, before, store_ops>>
  /\ UNCHANGED notUpsert

\* line 152: _engine_cached(); create_engine may raise
UEngine ==
  /\ upc = "u_engine"
  /\ store_ops' = Append(store_ops, "get_engine")
  /\ \/ upc' = "u_begin" /\ UNCHANGED uresult
     \/ URaises("ArgumentError")
  /\ UNCHANGED <<record, listing_rows, before>>
  /\ UNCHANGED notUpsert

\* line 152: .begin() opens the transaction, or raises
UBegin ==
  /\ upc = "u_begin"
  /\ store_ops' = Append(store_ops, "begin")
  /\ \/ upc' = "u_execute" /\ UNCHANGED uresult
     \/ URaises("OperationalError")
  /\ UNCHANGED <<record, listing_rows, before>>
  /\ UNCHANGED notUpsert

\* line 153: the statement is sent; text that is no JSON fails the CAST, and
\* the store may fail anyway
UExecute ==
  /\ upc = "u_execute"
  /\ store_ops' = Append(store_ops, "execute")
  /\ LET p == coerce_payload(record)
     IN  \/ /\ castable(p.price_history) /\ castable(p.nearby_homes)
            /\ upc' = "u_commit"
            /\ UNCHANGED uresult
         \/ /\ ~(castable(p.price_history) /\ castable(p.nearby_homes))
            /\ URaises("DataError")
         \/ URaises("OperationalError")
  /\ UNCHANGED <<record, listing_rows, before>>
  /\ UNCHANGED notUpsert

\* the with block ends: the commit makes the statement's effect the table's,
\* or fails and leaves the table as it was
UCommit ==
  /\ upc = "u_commit"
  /\ store_ops' = Append(store_ops, "commit")
  /\ \/ /\ listing_rows' = upsert_sql(listing_rows, coerce_payload(record))
        /\ upc' = "u_return"
        /\ UNCHANGED uresult
     \/ /\ URaises("OperationalError")
        /\ UNCHANGED listing_rows
  /\ UNCHANGED <<record, before>>
  /\ UNCHANGED notUpsert

\* line 154
UReturn ==
  /\ upc = "u_return"
  /\ uresult' = [status |-> "returned", error |-> FALSE, exc |-> ""]
  /\ upc' = "u_done"
  /\ UNCHANGED <<record, listing_rows, before, store_ops>>
  /\ UNCHANGED notUpsert

NextUpsert == UCall \/ UCheck \/ UEngine \/ UBegin \/ UExecute \/ UCommit \/ UReturn

SpecUpsert == InitUpsert /\ [][NextUpsert]_vars

(***************************************************************************)
(* SpecListing: one call of process_brightdata_snapshot                     *)
(* (Zillow_tools.py:102-112), get_listing_info applied to every dict item   *)
(***************************************************************************)
InitListing ==
  /\ snapshot_output \in Snapshots
  /\ selected_keys \in KeySets
  /\ kwargs \in Kwargs
  /\ lpc = "l_call"
  /\ lresult = NoLResult
  /\ QueryParked
  /\ UpsertIdle
  /\ PollIdle
  /\ EngineIdle
  /\ DepartureIdle
  /\ RecheckIdle

\* lines 102-112
ProcessSnapshot ==
  /\ lpc = "l_call"
  /\ lresult' = process_brightdata_snapshot(snapshot_output, selected_keys, kwargs)
  /\ lpc' = "l_done"
  /\ UNCHANGED <<snapshot_output, selected_keys, kwargs>>
  /\ UNCHANGED notListing

NextListing == ProcessSnapshot

SpecListing == InitListing /\ [][NextListing]_vars

(***************************************************************************)
(* SpecPoll: one call of retrieve_snapshot_from_brightData                  *)
(* (Zillow_tools.py:116-201) against a service that answers each request    *)
(* with any response, or not at all                                         *)
(***************************************************************************)
InitPoll ==
  /\ max_attempts \in 0..MaxAttempts
  /\ interval \in Intervals
  /\ ppc = "p_loop"
  /\ attempt = 0
  /\ responses = << >>
  /\ sleeps = << >>
  /\ presult = NoPResult
  /\ QueryParked
  /\ UpsertIdle
  /\ ListingIdle
  /\ EngineIdle
  /\ DepartureIdle
  /\ RecheckIdle

\* line 178: the next attempt, or lines 197-201 once range(max_attempts) is
\* exhausted
PLoop ==
  /\ ppc = "p_loop"
  /\ IF attempt < max_attempts
     THEN /\ ppc' = "p_request"
          /\ UNCHANGED presult
     ELSE /\ presult' = timeout_result(interval, max_attempts)
          /\ ppc' = "p_done"
  /\ UNCHANGED <<max_attempts, interval, attempt, responses, sleeps>>
  /\ UNCHANGED notPoll

\* the exception e leaves retrieve_snapshot_from_brightData
PRaises(e) ==
  /\ presult' = [NoPResult EXCEPT !.status = "raised", !.exc = e]
  /\ ppc' = "p_done"

\* lines 179-195: one request and the branch on its status code; requests.get
\* and resp.json() raise when there is no response or no JSON
PRequest ==
  /\ ppc = "p_request"
  /\ \/ \E resp \in PollResponses :
          /\ responses' = Append(responses, resp)
          /\ IF resp.status_code = 200
             THEN IF resp.isjson
                  THEN presult' = snapshot_result(resp) /\ ppc' = "p_done"
                  ELSE PRaises("JSONDecodeError")
             ELSE IF resp.status_code = 202
             THEN ppc' = "p_sleep" /\ UNCHANGED presult
             ELSE presult' = error_result(resp) /\ ppc' = "p_done"
     \/ PRaises("ConnectionError") /\ UNCHANGED responses
  /\ UNCHANGED <<max_attempts, interval, attempt, sleeps>>
  /\ UNCHANGED notPoll

\* PSleep going round the loop without time.sleep
PSleep_skips ==
  /\ ppc = "p_sleep"
  /\ attempt' = attempt + 1
  /\ ppc' = "p_loop"
  /\ UNCHANGED <<max_attempts, interval, responses, sleeps, presult>>
  /\ UNCHANGED notPoll

\* lines 186-187: time.sleep(interval), then the loop goes round
PSleep ==
  /\ ppc = "p_sleep"
  /\ sleeps' = Append(sleeps, interval)
  /\ attempt' = attempt + 1
  /\ ppc' = "p_loop"
  /\ UNCHANGED <<max_attempts, interval, responses, presult>>
  /\ UNCHANGED notPoll

NextPoll == PLoop \/ PRequest \/ PSleep

SpecPoll == InitPoll /\ [][NextPoll]_vars

(***************************************************************************)
(* SpecEngine: MaxCallers threads call get_engine (init_db_engine.py:12-21) *)
(* while one thread calls set_database_url (lines 23-29); a step is one     *)
(* line, reads and writes of _engine are atomic.  SpecGetEngine is the same *)
(* without the thread that resets.                                          *)
(***************************************************************************)
InitEngine ==
  /\ EngineIdle
  /\ QueryParked
  /\ UpsertIdle
  /\ ListingIdle
  /\ PollIdle
  /\ DepartureIdle
  /\ RecheckIdle

\* thread t calls get_engine()
GCall(t) ==
  /\ tpc[t] = "idle"
  /\ tpc' = [tpc EXCEPT ![t] = "g14"]
  /\ hist' = [hist EXCEPT !.start_resets[t] = resets.done,
                          !.start_floor[t] = resets.floor]
  /\ UNCHANGED <<_engine, _lock, DATABASE_URL, built, disposed, eng, rpc, resets>>
  /\ UNCHANGED notEngine

\* line 14: eng = _engine, read without the lock
GRead(t) ==
  /\ tpc[t] = "g14"
  /\ eng' = [eng EXCEPT ![t] = _engine]
  /\ tpc' = [tpc EXCEPT ![t] = "g15"]
  /\ UNCHANGED <<_engine, _lock, DATABASE_URL, built, disposed, hist, rpc, resets>>
  /\ UNCHANGED notEngine

\* line 15: if eng is None
GTest(t) ==
  /\ tpc[t] = "g15"
  /\ tpc' = [tpc EXCEPT ![t] = IF eng[t] = 0 THEN "g16" ELSE "g21"]
  /\ UNCHANGED <<_engine, _lock, DATABASE_URL, built, disposed, eng, hist, rpc, resets>>
  /\ UNCHANGED notEngine

\* line 16: with _lock
GLock(t) ==
  /\ tpc[t] = "g16"
  /\ _lock = FREE
  /\ _lock' = t
  /\ tpc' = [tpc EXCEPT ![t] = "g17"]
  /\ hist' = [hist EXCEPT !.first_lock = IF @ = 0 THEN t ELSE @]
  /\ UNCHANGED <<_engine, DATABASE_URL, built, disposed, eng, rpc, resets>>
  /\ UNCHANGED notEngine

\* GReread trusting the read of line 14: no second look under the lock
GReread_trusts_first_read(t) ==
  /\ tpc[t] = "g17"
  /\ tpc' = [tpc EXCEPT ![t] = "g18"]
  /\ UNCHANGED <<_engine, _lock, DATABASE_URL, built, disposed, eng, hist, rpc, resets>>
  /\ UNCHANGED notEngine

\* line 17: eng = _engine again, under the lock
GReread(t) ==
  /\ tpc[t] = "g17"
  /\ eng' = [eng EXCEPT ![t] = _engine]
  /\ tpc' = [tpc EXCEPT ![t] = "g18"]
  /\ UNCHANGED <<_engine, _lock, DATABASE_URL, built, disposed, hist, rpc, resets>>
  /\ UNCHANGED notEngine

\* line 18: if eng is None
GRetest(t) ==
  /\ tpc[t] = "g18"
  /\ tpc' = [tpc EXCEPT ![t] = IF eng[t] = 0 THEN "g19" ELSE "g_exit"]
  /\ UNCHANGED <<_engine, _lock, DATABASE_URL, built, disposed, eng, hist, rpc, resets>>
  /\ UNCHANGED notEngine

\* line 19: eng = create_engine(DATABASE_URL, ...)
GCreate(t) ==
  /\ tpc[t] = "g19"
  /\ built' = Append(built, [url |-> DATABASE_URL, by |-> t])
  /\ eng' = [eng EXCEPT ![t] = Len(built) + 1]
  /\ tpc' = [tpc EXCEPT ![t] = "g20"]
  /\ UNCHANGED <<_engine, _lock, DATABASE_URL, disposed, hist, rpc, resets>>
  /\ UNCHANGED notEngine

\* line 20: _engine = eng
GAssign(t) ==
  /\ tpc[t] = "g20"
  /\ _engine' = eng[t]
  /\ tpc' = [tpc EXCEPT ![t] = "g_exit"]
  /\ UNCHANGED <<_lock, DATABASE_URL, built, disposed, eng, hist, rpc, resets>>
  /\ UNCHANGED notEngine

\* the with block of line 16 ends
GUnlock(t) ==
  /\ tpc[t] = "g_exit"
  /\ _lock' = FREE
  /\ tpc' = [tpc EXCEPT ![t] = "g21"]
  /\ UNCHANGED <<_engine, DATABASE_URL, built, disposed, eng, hist, rpc, resets>>
  /\ UNCHANGED notEngine

\* line 21: return eng; the call and its local are over
GReturn(t) ==
  /\ tpc[t] = "g21"
  /\ eng' = [eng EXCEPT ![t] = 0]
  /\ hist' = [hist EXCEPT !.start_resets[t] = 0, !.start_floor[t] = 0]
  /\ tpc' = [tpc EXCEPT ![t] = "idle"]
  /\ UNCHANGED <<_engine, _lock, DATABASE_URL, built, disposed, rpc, resets>>
  /\ UNCHANGED notEngine

\* a thread calls set_database_url(url)
RCall ==
  /\ rpc = "idle"
  /\ resets.started < MaxResets
  /\ resets' = [resets EXCEPT !.started = @ + 1]
  /\ rpc' = "r25"
  /\ UNCHANGED <<_engine, _lock, DATABASE_URL, built, disposed, tpc, eng, hist>>
  /\ UNCHANGED notEngine

\* line 25: with _lock
RLock ==
  /\ rpc = "r25"
  /\ _lock = FREE
  /\ _lock' = RESETTER
  /\ resets' = [resets EXCEPT !.prev = _engine]
  /\ rpc' = "r26"
  /\ UNCHANGED <<_engine, DATABASE_URL, built, disposed, tpc, eng, hist>>
  /\ UNCHANGED notEngine

\* line 26: DATABASE_URL = url, the URL of this reset
RSetUrl ==
  /\ rpc = "r26"
  /\ DATABASE_URL' = resets.started
  /\ rpc' = "r27"
  /\ UNCHANGED <<_engine, _lock, built, disposed, tpc, eng, hist, resets>>
  /\ UNCHANGED notEngine

\* lines 27-28: if _engine: _engine.dispose()
RDispose ==
  /\ rpc = "r27"
  /\ disposed' = IF _engine # 0 THEN disposed \cup { _engine } ELSE disposed
  /\ rpc' = "r29"
  /\ UNCHANGED <<_engine, _lock, DATABASE_URL, built, tpc, eng, hist, resets>>
  /\ UNCHANGED notEngine

\* RClear leaving the disposed engine in place
RClear_keeps ==
  /\ rpc = "r29"
  /\ rpc' = "r_exit"
  /\ UNCHANGED <<_engine, _lock, DATABASE_URL, built, disposed, tpc, eng, hist, resets>>
  /\ UNCHANGED notEngine

\* line 29: _engine = None
RClear ==
  /\ rpc = "r29"
  /\ _engine' = 0
  /\ rpc' = "r_exit"
  /\ UNCHANGED <<_lock, DATABASE_URL, built, disposed, tpc, eng, hist, resets>>
  /\ UNCHANGED notEngine

\* the with block of line 25 ends and set_database_url returns
RUnlock ==
  /\ rpc = "r_exit"
  /\ _lock' = FREE
  /\ resets' = [resets EXCEPT !.done = @ + 1, !.floor = Len(built)]
  /\ rpc' = "idle"
  /\ UNCHANGED <<_engine, DATABASE_URL, built, disposed, tpc, eng, hist>>
  /\ UNCHANGED notEngine

NextGetEngine ==
  \E t \in Callers :
    \/ GCall(t) \/ GRead(t) \/ GTest(t) \/ GLock(t) \/ GReread(t) \/ GRetest(t)
    \/ GCreate(t) \/ GAssign(t) \/ GUnlock(t) \/ GReturn(t)

NextReset == RCall \/ RLock \/ RSetUrl \/ RDispose \/ RClear \/ RUnlock

NextEngine == NextGetEngine \/ NextReset

SpecGetEngine == InitEngine /\ [][NextGetEngine]_vars

SpecEngine == InitEngine /\ [][NextEngine]_vars

(***************************************************************************)
(* SpecDeparture: one call of get_departure_time (GoogleMaps_tools.py:     *)
(* 12-26) at any instant of the days modelled.                             *)
(***************************************************************************)
InitDeparture ==
  /\ now \in Nows
  /\ departure_time_hour \in DepartHours
  /\ departure_time_minute \in DepartMinutes
  /\ dpc = "d_start"
  /\ dresult = NoDeparture
  /\ QueryParked
  /\ UpsertIdle
  /\ ListingIdle
  /\ PollIdle
  /\ EngineIdle
  /\ RecheckIdle

\* the whole call
GetDepartureTime ==
  /\ dpc = "d_start"
  /\ dresult' = get_departure_time(now, departure_time_hour, departure_time_minute)
  /\ dpc' = "d_done"
  /\ UNCHANGED <<now, departure_time_hour, departure_time_minute>>
  /\ UNCHANGED notDepart

NextDeparture == GetDepartureTime

SpecDeparture == InitDeparture /\ [][NextDeparture]_vars

(***************************************************************************)
(* Properties of the sanitizer and the compiler, checked under Spec        *)
(***************************************************************************)
\* sanitize_agent_spec has returned
Returned == pc \in {"sanitized", "compiled"}
N == check.normalized_spec

OfKind(seq, kinds) == SelectSeq(seq, LAMBDA e : e.kind \in kinds)
Entries(seq) == [i \in 1..Len(seq) |-> seq[i].entry]
Whats(seq)   == [i \in 1..Len(seq) |-> seq[i].what]

BadField(e) == ~(e.field.ty = "str" /\ e.field.s \in ALLOWED_FIELDS)

\* C1: the normalized where, where_any and order_by hold only fields of
\* ALLOWED_FIELDS; every raw entry with another field is dropped with one
\* *_invalid_field error recorded for it, in input order; and the compiled
\* statement filters and sorts on ALLOWED_FIELDS columns and selects
\* ALLOWED_SELECT columns only.
C1_OnlyAllowedFields ==
  Returned =>
    /\ \A i \in 1..Len(N.where) : ~BadField(N.where[i])
    /\ \A i \in 1..Len(N.where_any) : ~BadField(N.where_any[i])
    /\ \A i \in 1..Len(N.order_by) : ~BadField(N.order_by[i])
    /\ Entries(OfKind(check.errors, {"where_invalid_field"}))
         = SelectSeq(raw.where.items, BadField)
    /\ Entries(OfKind(check.errors, {"where_any_invalid_field"}))
         = SelectSeq(raw.where_any.items, BadField)
    /\ Entries(OfKind(check.errors, {"order_by_invalid_field"}))
         = SelectSeq(raw.order_by.items, BadField)
    /\ pc = "compiled" =>
         /\ \A i \in 1..Len(stmt.whereclause.args) :
              stmt.whereclause.args[i].col \in ALLOWED_FIELDS
         /\ \A i \in 1..Len(stmt.whereclause.nested_or) :
              stmt.whereclause.nested_or[i].col \in ALLOWED_FIELDS
         /\ \A i \in 1..Len(stmt.order_by) : stmt.order_by[i].col \in ALLOWED_FIELDS
         /\ \A i \in 1..Len(stmt.columns) : stmt.columns[i] \in ALLOWED_SELECT

\* a spec with a disallowed field in `where` and in `where_any`, and with
\* surviving conditions and directives, has been sanitized and compiled
C1_Witness ==
  /\ pc = "compiled"
  /\ \E i \in 1..Len(raw.where.items) : BadField(raw.where.items[i])
  /\ \E i \in 1..Len(raw.where_any.items) : BadField(raw.where_any.items[i])
  /\ N.where # << >> /\ N.where_any # << >> /\ N.order_by # << >>

\* the names the raw spec requests, and those of them that are allowed
Requested == raw.select.items
GoodRequested == SelectSeq(Requested, LAMBDA c : c.ty = "str" /\ c.s \in ALLOWED_SELECT)
BadRequested  == SelectSeq(Requested, LAMBDA c : ~(c.ty = "str" /\ c.s \in ALLOWED_SELECT))
SelectShape ==
  /\ N.select # << >>
  /\ \A i \in 1..Len(N.select) : N.select[i] \in ALLOWED_SELECT
  /\ IF BadRequested # << >>
     THEN Whats(OfKind(check.warnings, {"select_dropped"})) = << BadRequested >>
     ELSE OfKind(check.warnings, {"select_dropped"}) = << >>
  /\ GoodRequested # << >> => N.select = Names(GoodRequested)

\* C2 as claimed: the normalized select is non-empty and within
\* ALLOWED_SELECT, disallowed requested names are dropped with a warning, and
\* whenever no allowed requested name is left the default list is substituted
\* and a warning is recorded.
C2_AsClaimed ==
  Returned =>
    /\ SelectShape
    /\ GoodRequested = << >> =>
         /\ N.select = DEFAULT_SELECT
         /\ OfKind(check.warnings, {"select_defaulted"}) # << >>

\* C2 amended: as claimed, except that the select_defaulted warning is
\* recorded exactly when the raw spec requests at least one name and none of
\* them is allowed; a missing or empty select gets the default list silently.
C2_SelectDefaulting ==
  Returned =>
    /\ SelectShape
    /\ GoodRequested = << >> => N.select = DEFAULT_SELECT
    /\ IF Requested # << >> /\ GoodRequested = << >>
       THEN Whats(OfKind(check.warnings, {"select_defaulted"})) = << DEFAULT_SELECT >>
       ELSE OfKind(check.warnings, {"select_defaulted"}) = << >>

\* a spec requesting only disallowed names has been sanitized
C2_Witness ==
  /\ Returned
  /\ Requested # << >>
  /\ GoodRequested = << >>
  /\ N.select = DEFAULT_SELECT

HasDigit(cs) == \E i \in 1..Len(cs) : cs[i] \in {"0","1","2","3","4","5","6","7","8","9"}
\* a value that is no number and no text of one
NonNumeric(x) == x.ty \in {"none", "list"} \/ (x.ty = "str" /\ ~HasDigit(x.chars))

\* C3: the normalized limit is an integer in 1..50: a limit above the cap
\* gives 50, a limit <= 0 or non-numeric gives 50, an integer in 1..50 is kept.
C3_LimitRange ==
  Returned =>
    /\ N.limit \in 1..50
    /\ (raw.limit.ty = "int" /\ raw.limit.n > MAX_LIMIT) => N.limit = MAX_LIMIT
    /\ (raw.limit.ty = "int" /\ raw.limit.n <= 0) => N.limit = 50
    /\ NonNumeric(raw.limit) => N.limit = 50
    /\ (raw.limit.ty = "int" /\ raw.limit.n \in 1..50) => N.limit = raw.limit.n

\* a spec with an integer limit above the cap has been sanitized
C3_Witness == Returned /\ raw.limit.ty = "int" /\ raw.limit.n > MAX_LIMIT /\ N.limit = 50

\* C4: the normalized offset is a non-negative integer: an offset < 0 or
\* non-numeric gives 0, a non-negative integer is kept.
C4_OffsetRange ==
  Returned =>
    /\ N.offset \in Nat
    /\ (raw.offset.ty = "int" /\ raw.offset.n < 0) => N.offset = 0
    /\ NonNumeric(raw.offset) => N.offset = 0
    /\ (raw.offset.ty = "int" /\ raw.offset.n >= 0) => N.offset = raw.offset.n

\* a spec with a negative integer offset has been sanitized
C4_Witness == Returned /\ raw.offset.ty = "int" /\ raw.offset.n < 0 /\ N.offset = 0

LimitWarnings  == OfKind(check.warnings, {"limit_defaulted"})
OffsetWarnings == OfKind(check.warnings, {"offset_defaulted"})

\* C5 as claimed: a missing or invalid limit (non-numeric, or no positive
\* integer) gives 50 with a limit warning; a missing or invalid offset
\* (non-numeric, or negative) gives 0 with an offset warning.
C5_AsClaimed ==
  Returned =>
    /\ (raw.limit.ty = "missing" \/ NonNumeric(raw.limit)
          \/ (raw.limit.ty = "int" /\ raw.limit.n < 1))
         => (N.limit = 50 /\ LimitWarnings # << >>)
    /\ (raw.offset.ty = "missing" \/ NonNumeric(raw.offset)
          \/ (raw.offset.ty = "int" /\ raw.offset.n < 0))
         => (N.offset = 0 /\ OffsetWarnings # << >>)

\* C5 amended: a limit that is present and non-numeric or an integer below 1
\* gives 50 with one limit warning, and an offset that is present and
\* non-numeric gives 0 with one offset warning; a missing limit or offset
\* takes its default (50, 0) without a warning, and a negative integer offset
\* is clamped to 0 without a warning.
C5_DefaultWarnings ==
  Returned =>
    /\ (NonNumeric(raw.limit) \/ (raw.limit.ty = "int" /\ raw.limit.n < 1))
         => (N.limit = 50 /\ Len(LimitWarnings) = 1)
    /\ (raw.limit.ty = "missing" \/ (raw.limit.ty = "int" /\ raw.limit.n >= 1))
         => LimitWarnings = << >>
    /\ raw.limit.ty = "missing" => N.limit = 50
    /\ NonNumeric(raw.offset) => (N.offset = 0 /\ Len(OffsetWarnings) = 1)
    /\ raw.offset.ty \in {"missing", "int"} => OffsetWarnings = << >>
    /\ (raw.offset.ty = "missing" \/ (raw.offset.ty = "int" /\ raw.offset.n < 0))
         => N.offset = 0

\* a spec with a non-numeric limit has been sanitized with a warning
C5_Witness ==
  /\ Returned
  /\ NonNumeric(raw.limit)
  /\ Len(LimitWarnings) = 1
  /\ N.limit = 50

\* the operator and value shape a surviving condition must have
GoodOp(c) == c.op.ty = "str" /\ c.op.s \in {"=", "!=", ">", ">=", "<", "<=", "ilike", "in", "between"}
GoodShape(c) ==
  /\ c.op.s = "in"      => (c.value.ty \in {"list", "tuple"} /\ c.value.n >= 1)
  /\ c.op.s = "between" => (c.value.ty \in {"list", "tuple"} /\ c.value.n = 2)
  /\ c.op.s = "ilike"   => c.value.ty = "str"
\* a raw condition on an allowed field that breaks one of the two
Violates(e) == ~BadField(e) /\ ~(GoodOp(e) /\ GoodShape(e))

WhereShapeErrors ==
  {"where_invalid_op", "where_invalid_in_value", "where_invalid_between_value",
   "where_ilike_needs_string"}
WhereAnyShapeErrors ==
  {"where_any_invalid_op", "where_any_invalid_in_value",
   "where_any_invalid_between_value", "where_any_ilike_needs_string"}

\* C6: every condition of the normalized where / where_any has an operator
\* of the fixed set and a value of the operator's shape (`in`: non-empty
\* list/tuple, `between`: list/tuple of two, `ilike`: str); every raw
\* condition breaking this is dropped with one error recorded for it.
C6_OperatorShapes ==
  Returned =>
    /\ \A i \in 1..Len(N.where) : GoodOp(N.where[i]) /\ GoodShape(N.where[i])
    /\ \A i \in 1..Len(N.where_any) : GoodOp(N.where_any[i]) /\ GoodShape(N.where_any[i])
    /\ Entries(OfKind(check.errors, WhereShapeErrors))
         = SelectSeq(raw.where.items, Violates)
    /\ Entries(OfKind(check.errors, WhereAnyShapeErrors))
         = SelectSeq(raw.where_any.items, Violates)
    /\ Len(N.where) + Len(OfKind(check.errors, WhereShapeErrors \cup {"where_invalid_field"}))
         = Len(raw.where.items)
    /\ Len(N.where_any)
         + Len(OfKind(check.errors, WhereAnyShapeErrors \cup {"where_any_invalid_field"}))
         = Len(raw.where_any.items)

\* a `between` with three bounds in where_any was dropped with an error while
\* another condition survived
C6_Witness ==
  /\ Returned
  /\ \E i \in 1..Len(raw.where_any.items) :
       LET e == raw.where_any.items[i]
       IN  e.op = Str("between") /\ e.value = PyList(3) /\ Violates(e)
  /\ OfKind(check.errors, {"where_any_invalid_between_value"}) # << >>
  /\ N.where_any # << >>

\* C7: sanitize_agent_spec never aborts: whatever the values and entries
\* under the six keys, it returns a result with ok = true.
C7_NeverRaises == pc # "start" => (check.exc = "" /\ check.ok)

IsAsc(cs)  == Len(cs) = 3 /\ cs[1] \in {"a", "A"} /\ cs[2] \in {"s", "S"} /\ cs[3] \in {"c", "C"}
IsDesc(cs) == Len(cs) = 4 /\ cs[1] \in {"d", "D"} /\ cs[2] \in {"e", "E"}
                          /\ cs[3] \in {"s", "S"} /\ cs[4] \in {"c", "C"}
\* the raw directives whose field is allowed: those that are kept
KeptObs == SelectSeq(raw.order_by.items, LAMBDA ob : ~BadField(ob))
DirectionWarnings == OfKind(check.warnings, {"order_by_defaulted_direction"})
\* no direction given: the key is missing, or its value is None, "", 0 or []
NoDirection(d) == d.ty \in {"missing", "none"} \/ d.n = 0

\* C8 as claimed: a directive with an allowed field gets direction asc or
\* desc; a direction that is missing or is not "asc"/"desc" becomes asc with
\* a warning recorded for the directive.
C8_AsClaimed ==
  Returned =>
    /\ Len(N.order_by) = Len(KeptObs)
    /\ \A i \in 1..Len(N.order_by) :
         /\ N.order_by[i].direction \in {ASC, DESC}
         /\ KeptObs[i].direction.chars \notin {ASC, DESC} =>
              /\ N.order_by[i].direction = ASC
              /\ \E j \in 1..Len(DirectionWarnings) : DirectionWarnings[j].what = KeptObs[i]

\* C8 amended: a directive with an allowed field gets direction asc or desc,
\* the given direction being compared without regard to letter case; a
\* direction that is missing or empty becomes asc without a warning, and a
\* direction text that is neither asc nor desc in any letter case becomes asc
\* with a warning recorded for the directive.
C8_OrderDirection ==
  Returned =>
    /\ Len(N.order_by) = Len(KeptObs)
    /\ \A i \in 1..Len(N.order_by) :
         LET d == KeptObs[i].direction
         IN  /\ N.order_by[i].field = KeptObs[i].field
             /\ N.order_by[i].direction \in {ASC, DESC}
             /\ N.order_by[i].direction = DESC <=> (~NoDirection(d) /\ IsDesc(d.chars))
    /\ Whats(DirectionWarnings)
         = SelectSeq(KeptObs, LAMBDA ob : /\ ~NoDirection(ob.direction)
                                          /\ ~IsAsc(ob.direction.chars)
                                          /\ ~IsDesc(ob.direction.chars))

\* a directive with an allowed field and direction "up" was kept with a warning
C8_Witness ==
  /\ Returned
  /\ \E i \in 1..Len(KeptObs) : KeptObs[i].direction = ScStr(<< "u", "p" >>)
  /\ DirectionWarnings # << >>

\* the expression each operator compiles to
SqlKind(op) ==
  CASE op = "="  -> "eq" [] op = "!=" -> "ne" [] op = ">"  -> "gt"
    [] op = ">=" -> "ge" [] op = "<"  -> "lt" [] op = "<=" -> "le"
    [] op = "ilike" -> "ilike" [] op = "in" -> "in_" [] op = "between" -> "between"
\* the clauses are the conditions, one for one and in order
Compiled(clauses, conds) ==
  /\ Len(clauses) = Len(conds)
  /\ \A i \in 1..Len(conds) :
       /\ clauses[i].col = conds[i].field.s
       /\ clauses[i].kind = SqlKind(conds[i].op.s)
       /\ clauses[i].value = conds[i].value

\* C9: with both groups non-empty the predicate is AND(where conditions,
\* OR(where_any conditions)); with one group non-empty it is that group alone
\* (AND of where, or OR of where_any); with both empty there is no predicate,
\* and the statement carries the normalized limit and offset.
C9_PredicateNesting ==
  pc = "compiled" =>
    LET p == stmt.whereclause
    IN  /\ (N.where # << >> /\ N.where_any # << >>) =>
              (p.op = "and" /\ Compiled(p.args, N.where) /\ Compiled(p.nested_or, N.where_any))
        /\ (N.where # << >> /\ N.where_any = << >>) =>
              (p.op = "and" /\ Compiled(p.args, N.where) /\ p.nested_or = << >>)
        /\ (N.where = << >> /\ N.where_any # << >>) =>
              (p.op = "or" /\ Compiled(p.args, N.where_any) /\ p.nested_or = << >>)
        /\ (N.where = << >> /\ N.where_any = << >>) =>
              (p.op = "none" /\ p.args = << >> /\ p.nested_or = << >>)
        /\ stmt.limit = N.limit /\ stmt.offset = N.offset

\* a spec with surviving conditions in both groups has been compiled
C9_Witness ==
  /\ pc = "compiled"
  /\ Len(N.where) >= 1 /\ Len(N.where_any) >= 2
  /\ stmt.whereclause.op = "and"
  /\ Len(stmt.whereclause.nested_or) >= 2

(***************************************************************************)
(* Properties of query_listing_table, checked under SpecQuery              *)
(***************************************************************************)
\* C10: no exception leaves query_listing_table: whatever fails (sanitizing,
\* obtaining the engine, opening the transaction, compiling, executing), the
\* call returns a structured result.
C10_NoRawException == result.status # "raised"

\* query_listing_table has returned a result object
QReturned == pc = "q_done" /\ result.status = "returned"

\* C11: in a returned result, ok is false exactly when the with block raised
\* (exc is the exception caught at line 399), whatever the sanitizer reported.
\* After a failure errors is the sanitizer's errors followed by one
\* execution_error entry carrying the exception, warnings is the sanitizer's
\* and data is empty; after a success errors and warnings are the sanitizer's
\* and meta.returned is the number of rows in data.
C11_ResultShape ==
  QReturned =>
    /\ result.ok = (exc = "")
    /\ result.warnings = check.warnings
    /\ exc # "" =>
         /\ result.errors =
              Append(check.errors, [kind |-> "execution_error", entry |-> exc])
         /\ result.data = << >>
    /\ exc = "" =>
         /\ result.errors = check.errors
         /\ result.data = data
         /\ result.returned = Len(result.data)

\* a failed execution of a spec that also had validation errors
C11_Witness ==
  /\ QReturned
  /\ ~result.ok
  /\ check.errors # << >>
  /\ Len(result.errors) = Len(check.errors) + 1

\* the pooled connections a call may hold at each of its steps
HeldAt(p) ==
  CASE p \in {"q_set", "q_build", "q_execute", "q_commit"} -> 1
    [] p = "q_reflect" -> 2
    [] OTHER -> 0

\* C12 as claimed: a call never holds more than one pooled connection, and
\* holds none once it has returned or raised.
C12_AsClaimed ==
  /\ pool_out <= 1
  /\ pc = "q_done" => pool_out = 0

\* C12: a call holds exactly one pooled connection from engine.begin() to the
\* end of the with block, and none before, after, or once it has returned or
\* raised; the one exception is the first compilation, where the reflection
\* of the listing table holds a second connection until the table is cached.
C12_ConnectionScope ==
  /\ pool_out = HeldAt(pc)
  /\ pool_out = 2 => ~LISTING
  /\ pc = "q_done" => pool_out = 0

\* a call whose commit failed after the rows were fetched has returned its
\* failure object, and holds nothing
C12_Witness ==
  /\ QReturned
  /\ ~result.ok
  /\ data # << >>
  /\ pool_out = 0

(***************************************************************************)
(* Properties of upsert_listing, checked under SpecUpsert                  *)
(***************************************************************************)
\* the record gives no value, None or "" for a key
Absent(v) == v.ty \in {"missing", "none"} \/ (v.ty = "str" /\ v.s = "")

\* C13: a call whose record lacks external_id or listing_data_source (missing
\* or empty) asks nothing of the store (no engine obtained, no transaction
\* opened, no statement executed), leaves the table as it was, and returns
\* the failure object {error: True}.
C13_NoStoreInteraction ==
  (upc # "u_idle"
     /\ (Absent(record.external_id) \/ Absent(record.listing_data_source))) =>
    /\ store_ops = << >>
    /\ listing_rows = before
    /\ upc \in {"u_check", "u_done"}
    /\ upc = "u_done" =>
         uresult = [status |-> "returned", error |-> TRUE, exc |-> ""]

\* a record with an id and an empty data source was refused while the table
\* holds rows
C13_Witness ==
  /\ upc = "u_done"
  /\ ~Absent(record.external_id)
  /\ Absent(record.listing_data_source)
  /\ uresult.error
  /\ listing_rows # {}

\* the row stored under the record's key
RowOf(rows) ==
  CHOOSE r \in rows : /\ r.external_id = record.external_id
                      /\ r.listing_data_source = record.listing_data_source

\* the call has returned success for a record whose key was already stored
Conflicted ==
  /\ upc = "u_done"
  /\ uresult.status = "returned"
  /\ ~uresult.error
  /\ \E r \in before : /\ r.external_id = record.external_id
                       /\ r.listing_data_source = record.listing_data_source

Range(seq) == { seq[i] : i \in DOMAIN seq }

\* stored is the shallow union of the contents old and new (NULL is no
\* content): for objects the keys of both with the new value for a key of
\* both, for arrays the entries of both, each once
IsShallowUnion(stored, old, new) ==
  IF old.ty # "array" /\ new.ty # "array"
  THEN /\ stored.ty # "array"
       /\ stored.obj = new.obj \cup { kv \in old.obj : \A nv \in new.obj : nv[1] # kv[1] }
  ELSE IF old.ty # "object" /\ new.ty # "object"
  THEN /\ stored.ty = "array"
       /\ Range(stored.arr) = Range(old.arr) \cup Range(new.arr)
       /\ Len(stored.arr) = Cardinality(Range(stored.arr))
  ELSE TRUE

\* C14: after an upsert onto an existing (listing_data_source, external_id),
\* the stored price_history is the shallow union of what was stored and what
\* the record brings, every other column holds the record's value (NULL when
\* the record omits it), and updated_at is the record's when it supplies one
\* and the stored one otherwise.
C14_ConflictMerge ==
  Conflicted =>
    LET old == RowOf(before)
        cur == RowOf(listing_rows)
    IN  /\ IsShallowUnion(cur.price_history, old.price_history, record.price_history.json)
        /\ cur.bedrooms = (IF record.bedrooms.ty = "missing" THEN PyNone ELSE record.bedrooms)
        /\ cur.nearby_homes = record.nearby_homes.json
        /\ cur.updated_at = (IF Absent(record.updated_at) THEN old.updated_at
                             ELSE record.updated_at)

\* C15: a failure of the store never leaves upsert_listing as an exception:
\* the call returns a structured failure object.
C15_NoRawFault == uresult.status # "raised"

(***************************************************************************)
(* Properties of the poll, checked under SpecPoll                          *)
(***************************************************************************)
\* the call has returned (not raised)
PReturned == ppc = "p_done" /\ presult.status = "returned"
\* every response so far was a 202
AllProcessing == \A i \in DOMAIN responses : responses[i].status_code = 202

\* C16: no call makes more than max_attempts requests, and none is made once
\* max_attempts have been; a call that got only 202 responses and returned
\* has made exactly max_attempts requests, slept `interval` after each, and
\* returns {error: True, status_code: 408} with a message reporting
\* interval * max_attempts seconds.
C16_Timeout ==
  /\ Len(responses) <= max_attempts
  /\ ppc \in {"p_request"} => Len(responses) < max_attempts
  /\ (PReturned /\ AllProcessing) =>
       /\ Len(responses) = max_attempts
       /\ sleeps = [i \in 1..max_attempts |-> interval]
       /\ presult.error
       /\ presult.status_code = 408
       /\ presult.message.seconds = interval * max_attempts

\* three requests, each answered 202 and followed by a sleep of 60 seconds
C16_Witness ==
  /\ PReturned
  /\ AllProcessing
  /\ max_attempts = 3
  /\ interval = 60
  /\ Len(sleeps) = 3
  /\ presult.status_code = 408

\* C17: every response but the last was a 202, and each 202 was followed by
\* one sleep of `interval` before anything else; after a response other than
\* 202 no request is made: the call is over, and when it returned, a 200 gave
\* the result of processing the snapshot and any other status an error object
\* with that status code and the response text.
C17_StopsAtFirstAnswer ==
  /\ \A i \in 1..(Len(responses) - 1) : responses[i].status_code = 202
  /\ \A i \in DOMAIN sleeps : sleeps[i] = interval
  /\ Len(sleeps) =
       Cardinality({ i \in DOMAIN responses : responses[i].status_code = 202 })
         - (IF ppc = "p_sleep" THEN 1 ELSE 0)
  /\ ppc = "p_request" => Len(sleeps) = Len(responses)
  /\ (responses # << >> /\ responses[Len(responses)].status_code # 202) =>
       LET last == responses[Len(responses)]
       IN  /\ ppc = "p_done"
           /\ presult.status = "returned" =>
                IF last.status_code = 200
                THEN /\ ~presult.error
                     /\ presult.snapshot =
                          process_brightdata_snapshot(last.json, SNAPSHOT_KEYS, DEFAULT_KWARGS)
                ELSE /\ presult.error
                     /\ presult.status_code = last.status_code
                     /\ presult.message.text = last.text

\* a 202, a sleep, then a 200 whose listings were processed
C17_Witness ==
  /\ PReturned
  /\ Len(responses) = 2
  /\ Len(sleeps) = 1
  /\ responses[2].status_code = 200
  /\ presult.snapshot.success
  /\ presult.snapshot.count = 1

(***************************************************************************)
(* Properties of the scraped listings, checked under SpecListing           *)
(***************************************************************************)
\* the dict items of the snapshot list, in order
DictItems == SelectSeq(snapshot_output.items, LAMBDA item : item.isdict)

\* C18: for all bounds >= 0, every listing of a processed snapshot has at most
\* max_photos photos (the first ones), at most max_price_history priceHistory
\* entries (the last ones), and a description / overview that was longer
\* than max_desc_chars cut to at most max_desc_chars characters plus one
\* ellipsis; count is the number of dict items of the snapshot list.
C18_Bounded ==
  (lpc = "l_done" /\ snapshot_output.ty = "list") =>
    /\ lresult.success
    /\ lresult.count = Len(DictItems)
    /\ Len(lresult.listings) = Len(DictItems)
    /\ \A i \in DOMAIN lresult.listings :
         LET out == lresult.listings[i]
             item == DictItems[i]
         IN  /\ ("photos" \in selected_keys /\ item.photos.ty = "list") =>
                  /\ Len(out["photos"].items) <= kwargs.max_photos
                  /\ out["photos"].items =
                       SubSeq(item.photos.items, 1, Len(out["photos"].items))
             /\ ("priceHistory" \in selected_keys /\ item.priceHistory.ty = "list") =>
                  /\ Len(out["priceHistory"].items) <= kwargs.max_price_history
                  /\ out["priceHistory"].items =
                       SubSeq(item.priceHistory.items,
                              Len(item.priceHistory.items) - Len(out["priceHistory"].items) + 1,
                              Len(item.priceHistory.items))
             /\ \A k \in {"description", "overview"} \cap selected_keys :
                  (item[k].ty = "str" /\ Len(item[k].chars) > kwargs.max_desc_chars) =>
                    LET cs == out[k].chars
                    IN  /\ cs # << >>
                        /\ cs[Len(cs)] = ELLIPSIS
                        /\ Len(cs) - 1 <= kwargs.max_desc_chars
                        /\ SubSeq(cs, 1, Len(cs) - 1) =
                             SubSeq(item[k].chars, 1, Len(cs) - 1)

(***************************************************************************)
(* Properties of the engine singleton                                      *)
(***************************************************************************)
\* C19 (under SpecGetEngine, where nothing resets): however the calls of
\* get_engine interleave, at most one engine is ever constructed, it is
\* constructed by the first caller that took the lock, and every call that
\* returns (is at line 21, `return eng`) returns that engine.
C19_BuiltOnce ==
  /\ Len(built) <= 1
  /\ built # << >> => built[1].by = hist.first_lock
  /\ _engine \in {0, 1}
  /\ \A t \in Callers :
       tpc[t] = "g21" =>
         /\ built # << >>
         /\ eng[t] = 1

\* a second caller saw no engine at line 14, waited for the lock, and found
\* under the lock the engine the first caller built
C19_Witness ==
  \E t \in Callers :
    /\ tpc[t] = "g_exit"
    /\ _lock = t
    /\ hist.first_lock # t
    /\ eng[t] = 1
    /\ built[1].by # t

\* C20 (under SpecEngine): set_database_url holds the lock while it disposes
\* and clears; when it has cleared, the singleton is None and the engine it
\* found is disposed; a get_engine call that started after a reset completed
\* returns (line 21) an engine constructed after that reset, from the URL
\* that reset (or a later one) set, so never an engine that reset disposed.
C20_ResetThenFresh ==
  /\ rpc \in {"r26", "r27", "r29", "r_exit"} => _lock = RESETTER
  /\ rpc = "r_exit" =>
       /\ _engine = 0
       /\ resets.prev # 0 => resets.prev \in disposed
  /\ \A t \in Callers :
       (tpc[t] = "g21" /\ hist.start_resets[t] > 0) =>
         /\ eng[t] > hist.start_floor[t]
         /\ eng[t] \in DOMAIN built
         /\ built[eng[t]].url >= hist.start_resets[t]

\* an engine was built and disposed by a reset, and a call that started after
\* the reset returns a second engine, built from the new URL
C20_Witness ==
  \E t \in Callers :
    /\ tpc[t] = "g21"
    /\ hist.start_resets[t] = 1
    /\ hist.start_floor[t] = 1
    /\ 1 \in disposed
    /\ eng[t] = 2
    /\ built[2].url = 1

(***************************************************************************)
(* C21: the departure time get_departure_time returns                      *)
(***************************************************************************)
DReturned == dpc = "d_done" /\ dresult.status = "returned"
\* the given hour:minute on date d
At(d) == DateTime(d, departure_time_hour, departure_time_minute, 0)
\* the Mondays whose hour:minute is strictly later than now
LaterMondays ==
  { d \in 0..(now.date + DAYS_PER_WEEK) :
      weekday(d) = TARGET_WEEKDAY /\ timestamp(At(d)) > timestamp(now) }

\* C21, as stated: a call that returns gives the earliest Monday hour:minute
\* that is strictly later than now.
C21_AsClaimed ==
  DReturned =>
    /\ dresult.aware_dt.date \in LaterMondays
    /\ \A d \in LaterMondays : dresult.aware_dt.date <= d
    /\ dresult.aware_dt = At(dresult.aware_dt.date)

\* C21, amended: a call that returns gives the given hour:minute on the first
\* Monday whose date is after today's date, which is one to seven days ahead
\* and, on a Monday, a whole week ahead even when today's hour:minute is
\* still to come; the result is a Monday and is strictly later than now.
C21_MondayAfterToday ==
  DReturned =>
    /\ dresult.aware_dt = At(dresult.aware_dt.date)
    /\ weekday(dresult.aware_dt.date) = TARGET_WEEKDAY
    /\ dresult.aware_dt.date \in (now.date + 1)..(now.date + DAYS_PER_WEEK)
    /\ \A d \in (now.date + 1)..(dresult.aware_dt.date - 1) :
         weekday(d) # TARGET_WEEKDAY
    /\ dresult.unix_seconds = timestamp(dresult.aware_dt)
    /\ dresult.unix_seconds > timestamp(now)

\* a call on a Monday before the given hour:minute has returned the Monday of
\* the week after
C21_Witness ==
  /\ DReturned
  /\ weekday(now.date) = TARGET_WEEKDAY
  /\ timestamp(now) < timestamp(At(now.date))
  /\ dresult.aware_dt.date = now.date + DAYS_PER_WEEK

(***************************************************************************)
(* C22: conservation of conditions, checked under Spec                     *)
(***************************************************************************)
WhereErrorKinds    == WhereShapeErrors \cup {"where_invalid_field"}
WhereAnyErrorKinds == WhereAnyShapeErrors \cup {"where_any_invalid_field"}

\* the (field, op, value) triple of a raw condition
Triple(cond) == [field |-> cond.field, op |-> cond.op, value |-> cond.value]
\* the elements of seq at the positions S, in the order of seq
Pick(seq, S) ==
  LET n == Cardinality(S)
      f == CHOOSE g \in [1..n -> S] : \A i, j \in 1..n : i < j => g[i] < g[j]
  IN  [k \in 1..n |-> seq[f[k]]]
\* the positions of items split in two: those of S are kept, as the same
\* triples and in input order, the others are the entries of errs, in order
Conserved(items, kept, errs) ==
  \E S \in SUBSET (1..Len(items)) :
    /\ kept = [k \in 1..Cardinality(S) |-> Triple(Pick(items, S)[k])]
    /\ Entries(errs) = Pick(items, (1..Len(items)) \ S)

\* C22: when sanitize_agent_spec returns, every entry of the raw where
\* (resp. where_any) list is either in the normalized where (resp. where_any)
\* as the same triple or the entry of exactly one error, never both and never
\* neither; the survivors keep their input order; and the raw where,
\* where_any and order_by entries are as many as the surviving entries and
\* the errors together.
C22_Conservation ==
  Returned =>
    /\ Conserved(raw.where.items, N.where, OfKind(check.errors, WhereErrorKinds))
    /\ Conserved(raw.where_any.items, N.where_any,
                 OfKind(check.errors, WhereAnyErrorKinds))
    /\ Len(raw.where.items) + Len(raw.where_any.items) + Len(raw.order_by.items)
         = Len(N.where) + Len(N.where_any) + Len(N.order_by) + Len(check.errors)

\* of two raw where conditions the first was rejected with an error and the
\* second survived, next to a where_any condition that survived
C22_Witness ==
  /\ Returned
  /\ Len(raw.where.items) = 2
  /\ N.where = << Triple(raw.where.items[2]) >>
  /\ Entries(OfKind(check.errors, WhereErrorKinds)) = << raw.where.items[1] >>
  /\ Len(N.where_any) = 1
  /\ Len(check.errors) = 1

(***************************************************************************)
(* C23: sanitizing a normalized spec again, checked under Spec             *)
(***************************************************************************)
Rechecked == recheck # NoCheck

\* C23: sanitize_agent_spec called on the normalized_spec it returned returns
\* the same normalized_spec, with no error and no warning.
C23_Idempotent ==
  Rechecked =>
    /\ recheck.exc = ""
    /\ recheck.ok
    /\ recheck.normalized_spec = check.normalized_spec
    /\ recheck.errors = << >>
    /\ recheck.warnings = << >>

\* the first call dropped an entry with an error and changed values with
\* warnings, and the second call returned its output unchanged
C23_Witness ==
  /\ Rechecked
  /\ check.errors # << >>
  /\ check.warnings # << >>
  /\ N.where # << >>
  /\ recheck.normalized_spec = N
  /\ recheck.errors = << >>
  /\ recheck.warnings = << >>

(***************************************************************************)
(* C24: get_engine against concurrent set_database_url, under SpecEngine   *)
(***************************************************************************)
\* the engines constructed and not disposed
LiveEngines == { e \in 1..Len(built) : e \notin disposed }

\* C24: in every interleaving of get_engine and set_database_url calls, the
\* engine a get_engine call returns (line 21) has not been disposed, and at
\* most one constructed engine is not disposed.
C24_NeverDisposed ==
  /\ \A t \in Callers : tpc[t] = "g21" => eng[t] \notin disposed
  /\ Cardinality(LiveEngines) <= 1

====
